---- MODULE Spec2Model ----
(***************************************************************************)
(* A model of xplshn/chains: the permission model (pkg/chains/permissions.go*)
(* and utility.go), the profile catalog (profiles.go), profile parsing and  *)
(* the trust predicate.                                                     *)
(*                                                                          *)
(* Go strings are modelled as sequences of one-character strings, so that   *)
(* slicing (str[len-3:]), splitting and replacing are computed as the code  *)
(* computes them.  Go slices are sequences; an index returned by the code   *)
(* (0-based, -1 for "absent") is modelled 1-based with 0 for "absent".      *)
(***************************************************************************)
EXTENDS Integers, Sequences, FiniteSets, TLC

VARIABLES
    p,          \* the *AppImagePerms a caller mutates: Level, Files, Devices, Sockets, DataDir
    op,         \* name of the last call made ("" before the first)
    arg,        \* argument of the last call
    pre,        \* the model as it was when the last call began
    ret,        \* what the last call returned
    panicked,   \* TRUE once a call has ended in a Go runtime panic
    fs,         \* the host files the code reads: the profile directories and the bundle
    env,        \* the process environment: is PREFER_CHAINS_PROFILE set
    RawProfiles,\* the catalog, as unmarshalled from the embedded database
    ai,         \* the AppImage handle: Name, Desktop and the handle's directories
    proc        \* the command-line process: where main is, its flags, what it ran

vars == <<p, op, arg, pre, ret, panicked, fs, env, RawProfiles, ai, proc>>

\* what the calls on a permission model and the constructors leave alone
host == <<fs, env, RawProfiles, ai, proc>>

----------------------------------------------------------------------------
(* Bounds *)

\* longest batch of strings one Add*/Remove* call receives
MaxBatch == 2
\* cap on len(p.Files)
MaxFiles == 3
\* cap on len(p.Devices)
MaxDevices == 3
\* longest batch of tokens one AddSockets/RemoveSockets call receives
MaxSocketBatch == 3
\* cap on len(p.Sockets)
MaxSockets == 3
\* most entries the catalog holds
MaxCatalog == 2

----------------------------------------------------------------------------
(* permissions.go: type AppImagePerms *)

\* &AppImagePerms{}
EmptyPerms == [Level |-> 0, Files |-> <<>>, Devices |-> <<>>, Sockets |-> <<>>,
               DataDir |-> FALSE, Names |-> <<>>]

----------------------------------------------------------------------------
(* strings package, as used by the code *)

\* does str hold old at position i
MatchAt(str, old, i) ==
    /\ i >= 1
    /\ i + Len(old) - 1 <= Len(str)
    /\ SubSeq(str, i, i + Len(old) - 1) = old

\* strings.Index, 1-based, 0 when old does not occur
Index(str, old) ==
    IF \E i \in 1..Len(str) : MatchAt(str, old, i)
    THEN CHOOSE i \in 1..Len(str) :
            /\ MatchAt(str, old, i)
            /\ \A j \in 1..(i - 1) : ~MatchAt(str, old, j)
    ELSE 0

\* strings.Replace(str, old, new, 1)
Replace1(str, old, new) ==
    LET i == Index(str, old)
    IN  IF i = 0 THEN str
        ELSE SubSeq(str, 1, i - 1) \o new \o SubSeq(str, i + Len(old), Len(str))

RECURSIVE ReplaceAll(_, _, _)
\* strings.ReplaceAll / bytes.ReplaceAll (old is never empty here)
ReplaceAll(str, old, new) ==
    LET i == Index(str, old)
    IN  IF i = 0 THEN str
        ELSE SubSeq(str, 1, i - 1) \o new
                \o ReplaceAll(SubSeq(str, i + Len(old), Len(str)), old, new)

RECURSIVE Split(_, _)
\* strings.Split(str, sep) for a one-character sep: n separators give n+1 parts
Split(str, sep) ==
    LET i == Index(str, <<sep>>)
    IN  IF i = 0 THEN <<str>>
        ELSE <<SubSeq(str, 1, i - 1)>> \o Split(SubSeq(str, i + 1, Len(str)), sep)

RECURSIVE Join(_, _)
\* strings.Join(parts, sep)
Join(parts, sep) ==
    IF Len(parts) = 0 THEN <<>>
    ELSE IF Len(parts) = 1 THEN parts[1]
    ELSE parts[1] \o <<sep>> \o Join(Tail(parts), sep)

RECURSIVE CleanElems(_, _, _)
\* the element walk of filepath.Clean: "" and "." are dropped, ".." pops
CleanElems(elems, out, rooted) ==
    IF Len(elems) = 0 THEN out
    ELSE LET e == Head(elems)
             rest == Tail(elems)
         IN  IF e = <<>> \/ e = <<".">> THEN CleanElems(rest, out, rooted)
             ELSE IF e = <<".", ".">>
                  THEN IF Len(out) > 0 /\ out[Len(out)] # <<".", ".">>
                       THEN CleanElems(rest, SubSeq(out, 1, Len(out) - 1), rooted)
                       ELSE IF rooted THEN CleanElems(rest, out, rooted)
                       ELSE CleanElems(rest, Append(out, e), rooted)
             ELSE CleanElems(rest, Append(out, e), rooted)

\* filepath.Clean: collapse slashes, drop a trailing slash, resolve . and ..
FilepathClean(str) ==
    LET rooted == Len(str) > 0 /\ str[1] = "/"
        out(body) == IF rooted THEN <<"/">> \o body
                     ELSE IF body = <<>> THEN <<".">>
                     ELSE body
    IN  out(Join(CleanElems(Split(str, "/"), <<>>, rooted), "/"))

----------------------------------------------------------------------------
(* Host environment read by ExpandDir *)

\* the home directory of the uid in /etc/passwd (RealHome)
RealHome == <<"/", "h">>

\* $HOME of the process as it was started (a portable home): xdg.Home once
\* ExpandDir has restored $HOME
EnvHome == <<"/", "p">>

\* the xdgDirs map ExpandDir builds while $HOME is the real home
xdgDirs == {
    [key |-> <<"x", "d", "g", "-", "h", "o", "m", "e">>,
     val |-> RealHome],
    [key |-> <<"x", "d", "g", "-", "d", "e", "s", "k", "t", "o", "p">>,
     val |-> RealHome \o <<"/", "D", "e", "s", "k", "t", "o", "p">>],
    [key |-> <<"x", "d", "g", "-", "d", "o", "w", "n", "l", "o", "a", "d">>,
     val |-> RealHome \o <<"/", "D", "o", "w", "n", "l", "o", "a", "d", "s">>],
    [key |-> <<"x", "d", "g", "-", "d", "o", "c", "u", "m", "e", "n", "t", "s">>,
     val |-> RealHome \o <<"/", "D", "o", "c", "u", "m", "e", "n", "t", "s">>],
    [key |-> <<"x", "d", "g", "-", "m", "u", "s", "i", "c">>,
     val |-> RealHome \o <<"/", "M", "u", "s", "i", "c">>],
    [key |-> <<"x", "d", "g", "-", "p", "i", "c", "t", "u", "r", "e", "s">>,
     val |-> RealHome \o <<"/", "P", "i", "c", "t", "u", "r", "e", "s">>],
    [key |-> <<"x", "d", "g", "-", "v", "i", "d", "e", "o", "s">>,
     val |-> RealHome \o <<"/", "V", "i", "d", "e", "o", "s">>],
    [key |-> <<"x", "d", "g", "-", "t", "e", "m", "p", "l", "a", "t", "e", "s">>,
     val |-> RealHome \o <<"/", "T", "e", "m", "p", "l", "a", "t", "e", "s">>],
    [key |-> <<"x", "d", "g", "-", "p", "u", "b", "l", "i", "c", "s", "h", "a", "r", "e">>,
     val |-> RealHome \o <<"/", "P", "u", "b", "l", "i", "c">>],
    [key |-> <<"x", "d", "g", "-", "c", "o", "n", "f", "i", "g">>,
     val |-> RealHome \o <<"/", ".", "c", "o", "n", "f", "i", "g">>],
    [key |-> <<"x", "d", "g", "-", "c", "a", "c", "h", "e">>,
     val |-> RealHome \o <<"/", ".", "c", "a", "c", "h", "e">>],
    [key |-> <<"x", "d", "g", "-", "d", "a", "t", "a">>,
     val |-> RealHome \o <<"/", ".", "l", "o", "c", "a", "l", "/", "s", "h", "a", "r", "e">>],
    [key |-> <<"x", "d", "g", "-", "s", "t", "a", "t", "e">>,
     val |-> RealHome \o <<"/", ".", "l", "o", "c", "a", "l", "/", "s", "t", "a", "t", "e">>]
}

\* expandEither: the key that prefixes str (no key prefixes another, and every
\* value is absolute, so at most one iteration of the range loop replaces) is
\* replaced by its value; the path is cleaned; a leading ~ becomes
\* dirs["xdg-home"]; the first occurrence of xdg.Home (home: the directory
\* $HOME names when expandEither runs) becomes dirs["xdg-home"]
expandEither(str, dirs, home) ==
    LET hit == {d \in dirs : MatchAt(str, d.key, 1)}
        xdgHome == (CHOOSE d \in dirs : d.key = <<"x", "d", "g", "-", "h", "o", "m", "e">>).val
        keyed(s) == IF hit = {} THEN s
                    ELSE LET d == CHOOSE d \in hit : TRUE IN Replace1(s, d.key, d.val)
        tilde(s) == IF s[1] = "~" THEN Replace1(s, <<"~">>, xdgHome) ELSE s
    IN  Replace1(tilde(FilepathClean(keyed(str))), home, xdgHome)

\* ExpandDir: expandEither over the real directories, $HOME being home when
\* ExpandDir is called (it is restored before expandEither runs)
ExpandDir(str, home) == expandEither(str, xdgDirs, home)

\* ExpandGenericDir: the same map and the same call as ExpandDir
ExpandGenericDir(str, home) == expandEither(str, xdgDirs, home)

----------------------------------------------------------------------------
(* utility.go: Cleanup & IO *)

\* Contains: index of the first element equal to str, 0 when absent
Contains(s, str) ==
    IF \E i \in 1..Len(s) : s[i] = str
    THEN CHOOSE i \in 1..Len(s) : s[i] = str /\ \A j \in 1..(i - 1) : s[j] # str
    ELSE 0

RECURSIVE ContainsAny(_, _)
\* ContainsAny: the index in s of the first element of s2 that s contains
ContainsAny(s, s2) ==
    IF Len(s2) = 0 THEN 0
    ELSE IF Contains(s, Head(s2)) > 0 THEN Contains(s, Head(s2))
    ELSE ContainsAny(s, Tail(s2))

\* CleanFile: keep a trailing :ro / :rw (read before expansion), else add :ro
CleanFile(str) ==
    LET ex == IF Len(str) >= 3 THEN SubSeq(str, Len(str) - 2, Len(str)) ELSE <<>>
        suffixed(e) == IF ex # <<":", "r", "o">> /\ ex # <<":", "r", "w">>
                       THEN e \o <<":", "r", "o">>
                       ELSE e
    IN  suffixed(ExpandDir(str, EnvHome))

CleanFiles(s) == [i \in 1..Len(s) |-> CleanFile(s[i])]

\* append(s[:i], s[i+1:]...) with the 1-based index i
RemoveAt(s, i) == SubSeq(s, 1, i - 1) \o SubSeq(s, i + 1, Len(s))

----------------------------------------------------------------------------
(* permissions.go: file grants *)

\* removeFile: clean, cut the last ":"-separated field, drop the first entry
\* equal to path:ro, or failing that to path:rw
removeFile(files, str) ==
    LET cut(s) == Join(SubSeq(s, 1, Len(s) - 1), ":")
        either(path) == <<path \o <<":", "r", "o">>, path \o <<":", "r", "w">>>>
        drop(i) == IF i > 0 THEN RemoveAt(files, i) ELSE files
    IN  drop(ContainsAny(files, either(cut(Split(CleanFiles(<<str>>)[1], ":")))))

RECURSIVE RemoveFiles(_, _)
RemoveFiles(files, s) ==
    IF Len(s) = 0 THEN files
    ELSE RemoveFiles(removeFile(files, Head(s)), Tail(s))

\* AddFiles: remove every named file, then append the cleaned batch
AddFiles(files, s) == RemoveFiles(files, s) \o CleanFiles(s)

----------------------------------------------------------------------------
(* permissions.go: device grants *)

\* CleanDevice: strip one leading "/dev/" from a string longer than it
CleanDevice(str) ==
    IF Len(str) > 5 /\ SubSeq(str, 1, 5) = <<"/", "d", "e", "v", "/">>
    THEN Replace1(str, <<"/", "d", "e", "v", "/">>, <<>>)
    ELSE str

CleanDevices(s) == [i \in 1..Len(s) |-> CleanDevice(s[i])]

\* removeDevice: drop the first entry equal to str as given (not cleaned)
removeDevice(devices, str) ==
    LET drop(i) == IF i > 0 THEN RemoveAt(devices, i) ELSE devices
    IN  drop(Contains(devices, str))

RECURSIVE RemoveDevices(_, _)
RemoveDevices(devices, s) ==
    IF Len(s) = 0 THEN devices
    ELSE RemoveDevices(removeDevice(devices, Head(s)), Tail(s))

\* AddDevices: remove every named device, then append the cleaned batch
AddDevices(devices, s) == RemoveDevices(devices, s) \o CleanDevices(s)

\* device arguments: each device as "name" and as "/dev/name"
DeviceArgs == {
    <<"d", "r", "i">>,
    <<"/", "d", "e", "v", "/", "d", "r", "i">>,
    <<"i", "n", "p", "u", "t">>,
    <<"/", "d", "e", "v", "/", "i", "n", "p", "u", "t">>
}

----------------------------------------------------------------------------
(* permissions.go: socket grants *)

\* the keys of SocketMap (each maps to the Socket of the same text)
SocketMap == {
    <<"x", "1", "1">>,
    <<"a", "l", "s", "a">>,
    <<"a", "u", "d", "i", "o">>,
    <<"p", "u", "l", "s", "e", "a", "u", "d", "i", "o">>,
    <<"w", "a", "y", "l", "a", "n", "d">>,
    <<"d", "b", "u", "s">>,
    <<"c", "g", "r", "o", "u", "p">>,
    <<"n", "e", "t", "w", "o", "r", "k">>,
    <<"p", "i", "d">>,
    <<"p", "i", "p", "e", "w", "i", "r", "e">>,
    <<"s", "e", "s", "s", "i", "o", "n">>,
    <<"u", "s", "e", "r">>,
    <<"u", "t", "s">>
}

\* SocketFromString: the socket, or InvalidSocket for a string not in the map
SocketFromString(socketString) ==
    IF socketString \in SocketMap
    THEN [socket |-> socketString, err |-> "nil"]
    ELSE [socket |-> <<>>, err |-> "InvalidSocket"]

RECURSIVE removeSocketLoop(_, _, _, _)
\* the range loop of removeSocket.  The loop runs over the slice header taken
\* at loop entry (n elements of the backing array b) while p.Sockets shrinks
\* in place to its first m elements.  On a match at the 1-based index i the
\* code evaluates p.Sockets[i+1:] (0-based), which panics when i > m;
\* otherwise b[i+1..m] shifts left by one and b[m] keeps its stale value.
removeSocketLoop(b, m, i, str) ==
    IF i > Len(b) THEN [s |-> SubSeq(b, 1, m), panic |-> FALSE]
    ELSE IF b[i] = str
         THEN IF i > m THEN [s |-> SubSeq(b, 1, m), panic |-> TRUE]
              ELSE removeSocketLoop(
                       SubSeq(b, 1, i - 1) \o SubSeq(b, i + 1, m) \o SubSeq(b, m, Len(b)),
                       m - 1, i + 1, str)
         ELSE removeSocketLoop(b, m, i + 1, str)

removeSocket(sockets, str) == removeSocketLoop(sockets, Len(sockets), 1, str)

RECURSIVE RemoveSockets(_, _)
\* RemoveSockets: removeSocket for each string in turn, until one panics
RemoveSockets(sockets, s) ==
    IF Len(s) = 0 THEN [s |-> sockets, panic |-> FALSE]
    ELSE LET r == removeSocket(sockets, Head(s))
         IN  IF r.panic THEN r ELSE RemoveSockets(r.s, Tail(s))

RECURSIVE appendSockets(_, _)
\* the append loop of AddSockets: stop with the error at the first string
\* SocketFromString rejects
appendSockets(sockets, s) ==
    IF Len(s) = 0 THEN [s |-> sockets, err |-> "nil"]
    ELSE LET r == SocketFromString(Head(s))
         IN  IF r.err # "nil" THEN [s |-> sockets, err |-> r.err]
             ELSE appendSockets(Append(sockets, r.socket), Tail(s))

\* AddSockets: nothing for an empty batch; else remove every named string,
\* then append until the first invalid one
AddSockets(sockets, socketStrings) ==
    IF Len(socketStrings) = 0 THEN [s |-> sockets, err |-> "nil", panic |-> FALSE]
    ELSE LET r == RemoveSockets(sockets, socketStrings)
         IN  IF r.panic THEN [s |-> r.s, err |-> "panic", panic |-> TRUE]
             ELSE LET a == appendSockets(r.s, socketStrings)
                  IN  [s |-> a.s, err |-> a.err, panic |-> FALSE]

\* socket tokens a caller passes: two of the enumeration and one outside it
SocketArgs == {
    <<"x", "1", "1">>,
    <<"w", "a", "y", "l", "a", "n", "d">>,
    <<"b", "o", "g", "u", "s">>
}

----------------------------------------------------------------------------
(* Profile text: utility.go SplitKey and the constructors of permissions.go *)

\* U+FF1B FULLWIDTH SEMICOLON (bytes EF BC 9B), as one character: what
\* FromSystem and FromReader put in place of every ";"
FullWidthSemicolon == <<"U+FF1B">>

\* the three characters U+00EF U+00BC U+203A (bytes C3 AF C2 BC E2 80 BA) that
\* the string literal of SplitKey holds.  Replacing is by bytes; UTF-8 is
\* self-synchronising, so matching whole characters is the same thing.
SplitKeyLiteral == <<"U+00EF", "U+00BC", "U+203A">>

RECURSIVE FieldsFunc(_, _)
\* strings.FieldsFunc(str, c == sep): the maximal runs of characters other
\* than sep; empty fields are dropped
FieldsFunc(str, sep) ==
    IF Len(str) = 0 THEN <<>>
    ELSE IF Head(str) = sep THEN FieldsFunc(Tail(str), sep)
    ELSE LET i == Index(str, <<sep>>)
         IN  IF i = 0 THEN <<str>>
             ELSE <<SubSeq(str, 1, i - 1)>>
                     \o FieldsFunc(SubSeq(str, i + 1, Len(str)), sep)

\* SplitKey: replace the literal by ";", then split into fields at ";"
SplitKey(str) == FieldsFunc(ReplaceAll(str, SplitKeyLiteral, <<";">>), ";")

Digits == <<"0", "1", "2", "3", "4", "5", "6", "7", "8", "9">>

RECURSIVE DigitsValue(_, _)
\* the value of a string of decimal digits, most significant first
DigitsValue(str, acc) ==
    IF Len(str) = 0 THEN acc
    ELSE DigitsValue(Tail(str), 10 * acc + (Contains(Digits, Head(str)) - 1))

\* strconv.Atoi: an optional sign and at least one decimal digit, else a
\* syntax error with the value 0
Atoi(str) ==
    LET signed == Len(str) > 0 /\ Head(str) \in {"+", "-"}
        body == IF signed THEN Tail(str) ELSE str
    IN  IF Len(body) = 0 \/ \E i \in 1..Len(body) : Contains(Digits, body[i]) = 0
        THEN [n |-> 0, err |-> "ErrSyntax"]
        ELSE [n |-> IF signed /\ Head(str) = "-" THEN 0 - DigitsValue(body, 0)
                    ELSE DigitsValue(body, 0),
              err |-> "nil"]

\* The value ini keeps of a key's text: with default options everything from
\* the first ";" or "#" on is an inline comment; IgnoreInlineComment keeps it
iniValue(str, ignoreInlineComment) ==
    LET cut == {i \in 1..Len(str) : str[i] \in {";", "#"}}
    IN  IF ignoreInlineComment \/ cut = {} THEN str
        ELSE SubSeq(str, 1, (CHOOSE i \in cut : \A j \in cut : i <= j) - 1)

\* ini.Load of a profile text.  A text is the record of the raw values of the
\* keys of section "X-App Permissions" (an absent key is the empty string)
\* with ok = FALSE when the text is not ini syntax at all.
iniLoad(text, ignoreInlineComment) ==
    IF ~text.ok THEN [e |-> "nil", err |-> "ini: parse error"]
    ELSE [e |-> [Level |-> iniValue(text.Level, ignoreInlineComment),
                 Files |-> iniValue(text.Files, ignoreInlineComment),
                 Devices |-> iniValue(text.Devices, ignoreInlineComment),
                 Sockets |-> iniValue(text.Sockets, ignoreInlineComment),
                 DataDir |-> iniValue(text.DataDir, ignoreInlineComment)],
          err |-> "nil"]

\* strings.ReplaceAll(text, ";", U+FF1B) over the whole text
substituteSemicolons(text) ==
    [ok |-> text.ok,
     Level |-> ReplaceAll(text.Level, <<";">>, FullWidthSemicolon),
     Files |-> ReplaceAll(text.Files, <<";">>, FullWidthSemicolon),
     Devices |-> ReplaceAll(text.Devices, <<";">>, FullWidthSemicolon),
     Sockets |-> ReplaceAll(text.Sockets, <<";">>, FullWidthSemicolon),
     DataDir |-> ReplaceAll(text.DataDir, <<";">>, FullWidthSemicolon)]

\* FromIni: DataDir unless "false"; Level through Atoi, -1 and Atoi's error
\* (nil for an integer out of range) when unusable; then the three lists, the
\* error of AddSockets being dropped
FromIni(e) ==
    LET dataDir == e.DataDir # <<"f", "a", "l", "s", "e">>
        lists(l, sockets) ==
            [perms |-> [Level |-> l,
                        Files |-> AddFiles(<<>>, SplitKey(e.Files)),
                        Devices |-> AddDevices(<<>>, SplitKey(e.Devices)),
                        Sockets |-> sockets.s,
                        DataDir |-> dataDir,
                        Names |-> <<>>],
             err |-> "nil", panic |-> sockets.panic]
        levelled(a) ==
            IF a.err # "nil" \/ a.n < 0 \/ a.n > 3
            THEN [perms |-> [EmptyPerms EXCEPT !.DataDir = dataDir, !.Level = 0 - 1],
                  err |-> a.err, panic |-> FALSE]
            ELSE lists(a.n, AddSockets(<<>>, SplitKey(e.Sockets)))
    IN  levelled(Atoi(e.Level))

\* FromReader: rewrite every ";", ini.Load with default options, FromIni; a
\* load error returns a nil model
FromReader(text) ==
    LET loaded(l) == IF l.err # "nil" THEN [perms |-> "nil", err |-> l.err, panic |-> FALSE]
                     ELSE FromIni(l.e)
    IN  loaded(iniLoad(substituteSemicolons(text), FALSE))

\* A file slot of the host is a sequence: empty when no file is there, else
\* of the one thing the file holds
NoFile == <<>>

\* a text that is not ini syntax
MalformedText == [ok |-> FALSE, Level |-> <<>>, Files |-> <<>>, Devices |-> <<>>,
                  Sockets |-> <<>>, DataDir |-> <<>>]

\* FromSystem: the file profiles[name] of the chains profile directory, read
\* line by line with every ";" rewritten, ini.Load, FromIni; an open or load
\* error returns the empty model
FromSystem(profiles, name) ==
    IF profiles[name] = NoFile
    THEN [perms |-> EmptyPerms, err |-> "open: no such file", panic |-> FALSE]
    ELSE LET loaded(l) ==
                 IF l.err # "nil" THEN [perms |-> EmptyPerms, err |-> l.err, panic |-> FALSE]
                 ELSE FromIni(l.e)
         IN  loaded(iniLoad(substituteSemicolons(profiles[name][1]), FALSE))

----------------------------------------------------------------------------
(* profiles.go: the catalog *)

UpperCase == <<"A", "B", "C", "D", "E", "F", "G", "H", "I", "J", "K", "L", "M",
               "N", "O", "P", "Q", "R", "S", "T", "U", "V", "W", "X", "Y", "Z">>

LowerCase == <<"a", "b", "c", "d", "e", "f", "g", "h", "i", "j", "k", "l", "m",
               "n", "o", "p", "q", "r", "s", "t", "u", "v", "w", "x", "y", "z">>

\* strings.ToLower
ToLower(str) ==
    [i \in 1..Len(str) |->
        IF Contains(UpperCase, str[i]) > 0
        THEN LowerCase[Contains(UpperCase, str[i])]
        ELSE str[i]]

\* the index of the entry Profiles() maps name to: the map is written entry
\* by entry under each of its Names as spelled, so the last entry listing the
\* name stays; 0 when no entry lists it
ProfileIndex(raw, name) ==
    LET listing == {k \in 1..Len(raw) :
                       \E j \in 1..Len(raw[k].Names) : raw[k].Names[j] = name}
    IN  IF listing = {} THEN 0
        ELSE CHOOSE k \in listing : \A l \in listing : l <= k

\* Profiles: the map from each listed name to its entry
Profiles(raw) ==
    [name \in UNION {{raw[k].Names[j] : j \in 1..Len(raw[k].Names)} : k \in 1..Len(raw)}
        |-> raw[ProfileIndex(raw, name)]]

\* FromName: look the lower-cased name up in Profiles(); on a hit return the
\* entry with its Files cleaned, on a miss a model of level -1 and an error
FromName(raw, name) ==
    LET lower == ToLower(name)
        profiles == Profiles(raw)
    IN  IF lower \in DOMAIN profiles
        THEN [perms |-> [profiles[lower] EXCEPT !.Files = CleanFiles(@)],
              err |-> "nil", panic |-> FALSE]
        ELSE [perms |-> [EmptyPerms EXCEPT !.Level = 0 - 1],
              err |-> "cannot find permissions for app", panic |-> FALSE]

\* CleanFiles writes into the slice it is given, and the Files slice of the
\* map's copy shares its array with the catalog entry: after a hit the
\* entry's Files are the cleaned ones
RawProfilesAfterFromName(raw, name) ==
    LET k == ProfileIndex(raw, ToLower(name))
    IN  IF k = 0 THEN raw
        ELSE [raw EXCEPT ![k].Files = CleanFiles(@)]

----------------------------------------------------------------------------
(* permissions.go: resolving a bundle's permissions, and trust *)

\* GetPermissions as it would be if the environment variable were not
\* consulted: the persisted profile always first
GetPermissions_NoOverride(handle, profiles, raw, prefer) ==
    LET orElse(first, second) == IF first.err # "nil" THEN second ELSE first
        fallBack(found) ==
            IF found.err # "nil" THEN FromIni(handle.Desktop)
            ELSE [perms |-> found.perms, err |-> "nil", panic |-> found.panic]
    IN  fallBack(orElse(FromSystem(profiles, handle.Name), FromName(raw, handle.Name)))

\* GetPermissions: with PREFER_CHAINS_PROFILE set the catalog then the
\* persisted profile, else the persisted profile then the catalog; when both
\* fail, whatever FromIni gives for the bundle's own desktop entry
GetPermissions(handle, profiles, raw, prefer) ==
    LET orElse(first, second) == IF first.err # "nil" THEN second ELSE first
        ordered(system, catalog) ==
            IF prefer THEN orElse(catalog, system) ELSE orElse(system, catalog)
        fallBack(found) ==
            IF found.err # "nil" THEN FromIni(handle.Desktop)
            ELSE [perms |-> found.perms, err |-> "nil", panic |-> found.panic]
    IN  fallBack(ordered(FromSystem(profiles, handle.Name), FromName(raw, handle.Name)))

\* does GetPermissions call FromName: first when the variable is set, else
\* only after FromSystem failed
GetPermissionsCallsFromName(handle, profiles, prefer) ==
    prefer \/ FromSystem(profiles, handle.Name).err # "nil"

\* the extra executable marker: mode bit 0100
MarkerBit == 64

\* info.Mode()&0100 != 0
HasMarkerBit(mode) == (mode \div MarkerBit) % 2 = 1

\* IsTrusted as it would be if the bundle's mode were not tested
IsTrusted_ProfileOnly(files, name) ==
    files.chains[name] # NoFile /\ files.bundle # NoFile

\* IsTrusted: a file of any kind exists at chains/profiles/name, the bundle
\* can be stat'ed and its mode has bit 0100
IsTrusted(files, name) ==
    IF files.chains[name] # NoFile
    THEN files.bundle # NoFile /\ HasMarkerBit(files.bundle[1])
    ELSE FALSE

\* (*AppImage).Trusted: the same test on aisap/profiles/ai.Name
Trusted(files, handle) ==
    IF files.aisap[handle.Name]
    THEN IF files.bundle = NoFile THEN FALSE
         ELSE HasMarkerBit(files.bundle[1])
    ELSE FALSE

\* info.Mode()|0100
WithMarkerBit(mode) == IF HasMarkerBit(mode) THEN mode ELSE mode + MarkerBit

\* what desktopFile.WriteTo writes: the desktop entry as profile text
DesktopText(d) ==
    [ok |-> TRUE, Level |-> d.Level, Files |-> d.Files, Devices |-> d.Devices,
     Sockets |-> d.Sockets, DataDir |-> d.DataDir]

\* (*AppImage).SetTrusted.  sys holds the outcomes of the system calls the
\* host decides (TRUE: the call succeeds).  Enabling, with no file at
\* chains/profiles/ai.Name: MkdirAll of the directory, Stat of the bundle,
\* Chmod to mode|0100, each error returned; no profile is written.  Enabling
\* with a file there: an error.  Disabling: os.Remove, its error dropped.
aiSetTrusted(files, handle, trusted, sys) ==
    IF trusted
    THEN IF files.chains[handle.Name] = NoFile
         THEN IF ~(files.profilesDir \/ sys.mkdir)
              THEN [fs |-> files, err |-> "mkdir failed"]
              ELSE IF files.bundle = NoFile
              THEN [fs |-> [files EXCEPT !.profilesDir = TRUE],
                    err |-> "stat: no such file"]
              ELSE IF ~sys.chmod
              THEN [fs |-> [files EXCEPT !.profilesDir = TRUE], err |-> "chmod failed"]
              ELSE [fs |-> [files EXCEPT !.profilesDir = TRUE,
                                         !.bundle = <<WithMarkerBit(@[1])>>],
                    err |-> "nil"]
         ELSE [fs |-> files, err |-> "entry already exists in chains config dir"]
    ELSE [fs |-> IF sys.remove THEN [files EXCEPT !.chains[handle.Name] = NoFile]
                 ELSE files,
          err |-> "nil"]

\* SetTrusted(name, path, ai, trusted), path being the bundle file.  Enabling:
\* MkdirAll when the directory is missing (error dropped), Stat of the bundle
\* (error returned), Chmod to mode|0100 (error dropped), then an error when a
\* file is at chains/profiles/name, else the file is created and the desktop
\* entry written to it.  Disabling: os.Remove, its error returned.
SetTrusted(files, name, handle, trusted, sys) ==
    IF trusted
    THEN LET made == [files EXCEPT !.profilesDir = @ \/ sys.mkdir]
             marked == IF sys.chmod
                       THEN [made EXCEPT !.bundle = <<WithMarkerBit(@[1])>>]
                       ELSE made
         IN  IF files.bundle = NoFile
             THEN [fs |-> made, err |-> "stat: no such file"]
             ELSE IF files.chains[name] # NoFile
             THEN [fs |-> marked, err |-> "entry already exists in chains config dir"]
             ELSE IF ~(made.profilesDir /\ sys.create)
             THEN [fs |-> marked, err |-> "create failed"]
             ELSE IF ~sys.write
             THEN [fs |-> [marked EXCEPT !.chains[name] = <<MalformedText>>],
                   err |-> "write failed"]
             ELSE [fs |-> [marked EXCEPT !.chains[name] = <<DesktopText(handle.Desktop)>>],
                   err |-> "nil"]
    ELSE IF files.chains[name] = NoFile \/ ~sys.remove
         THEN [fs |-> files, err |-> "remove failed"]
         ELSE [fs |-> [files EXCEPT !.chains[name] = NoFile], err |-> "nil"]

----------------------------------------------------------------------------
(* wrap.go: the policy compiler.  The argument vector is a sequence of      *)
(* strings; a string computed character by character is spelled by Str.     *)

RECURSIVE Str(_)
\* the string a sequence of characters spells
Str(seq) == IF Len(seq) = 0 THEN "" ELSE Head(seq) \o Str(Tail(seq))

\* path.Base of a path that does not end in a slash
Base(path) == Split(path, "/")[Len(Split(path, "/"))]

\* the xdgDirs map as strings
xdgStrings == {[key |-> Str(d.key), val |-> Str(d.val)] : d \in xdgDirs}

\* the value of the xdgDirs entry key, $HOME being the real home (unsetHome)
XdgDir(key) == (CHOOSE d \in xdgStrings : d.key = key).val

\* xdg.RuntimeDir
RuntimeDir == "/run/user/1000"

\* strconv.Itoa(os.Getuid())
Uid == "1000"

\* the sources ai.resolve is given with a leading slash
AbsoluteSources == {
    "/run/systemd", "/usr/share/alsa", "/etc/alsa", "/etc/group", "/dev/snd",
    "/usr/share/pulseaudio", "/etc/pulse", "/etc/ca-certificates",
    "/etc/resolv.conf", "/etc/ssl", "/etc/pki", "/usr/share/ca-certificates",
    "/usr/share/X11"
}

\* resolve: filepath.Join(ai.rootDir, src) with symlinks resolved (the host
\* of the model has none); when the host cannot resolve it, "/" + src
resolve(handle, files, src) ==
    LET rooted == IF src \in AbsoluteSources THEN src ELSE "/" \o src
    IN  IF src \in files.unresolved THEN "/" \o src
        ELSE IF handle.rootDir = "/" THEN rooted
        ELSE handle.rootDir \o rooted

\* IsMounted
IsMounted(handle) == handle.mountDir # ""

\* "/tmp/.mount_" + ai.md5
AppDir(handle) == "/tmp/.mount_" \o handle.md5

\* the user font, theme and toolkit configuration both tiers bind read-only
userThemeArgs ==
    <<"--ro-bind-try", XdgDir("xdg-data") \o "/fonts", XdgDir("xdg-data") \o "/fonts",
      "--ro-bind-try", XdgDir("xdg-data") \o "/themes", XdgDir("xdg-data") \o "/themes",
      "--ro-bind-try", XdgDir("xdg-data") \o "/icons", XdgDir("xdg-data") \o "/icons",
      "--ro-bind-try", XdgDir("xdg-config") \o "/fontconfig", XdgDir("xdg-config") \o "/fontconfig",
      "--ro-bind-try", XdgDir("xdg-config") \o "/gtk-3.0", XdgDir("xdg-config") \o "/gtk-3.0",
      "--ro-bind-try", XdgDir("xdg-config") \o "/gtk-4.0", XdgDir("xdg-config") \o "/gtk-4.0",
      "--ro-bind-try", XdgDir("xdg-config") \o "/qt5ct", XdgDir("xdg-config") \o "/qt5ct",
      "--ro-bind-try", XdgDir("xdg-config") \o "/qt6ct", XdgDir("xdg-config") \o "/qt6ct",
      "--ro-bind-try", XdgDir("xdg-config") \o "/Kvantum", XdgDir("xdg-config") \o "/Kvantum",
      "--ro-bind-try", XdgDir("xdg-config") \o "/kdeglobals", XdgDir("xdg-config") \o "/kdeglobals",
      "--ro-bind-try", XdgDir("xdg-config") \o "/lxde/lxde.conf",
                       XdgDir("xdg-config") \o "/lxde/lxde.conf">>

\* mainWrapArgs: the arguments of every level
baseArgs(handle, files) ==
    <<"--setenv", "TMPDIR", "/tmp",
      "--setenv", "HOME", XdgDir("xdg-home"),
      "--setenv", "APPDIR", AppDir(handle),
      "--setenv", "APPIMAGE", "/app/" \o Str(Base(handle.Path)),
      "--setenv", "ARGV0", Str(Base(handle.Path)),
      "--setenv", "XDG_DESKTOP_DIR", XdgDir("xdg-desktop"),
      "--setenv", "XDG_DOWNLOAD_DIR", XdgDir("xdg-download"),
      "--setenv", "XDG_DOCUMENTS_DIR", XdgDir("xdg-documents"),
      "--setenv", "XDG_MUSIC_DIR", XdgDir("xdg-music"),
      "--setenv", "XDG_PICTURES_DIR", XdgDir("xdg-pictures"),
      "--setenv", "XDG_VIDEOS_DIR", XdgDir("xdg-videos"),
      "--setenv", "XDG_TEMPLATES_DIR", XdgDir("xdg-templates"),
      "--setenv", "XDG_PUBLICSHARE_DIR", XdgDir("xdg-publicshare"),
      "--setenv", "XDG_DATA_HOME", XdgDir("xdg-data"),
      "--setenv", "XDG_CONFIG_HOME", XdgDir("xdg-config"),
      "--setenv", "XDG_CACHE_HOME", XdgDir("xdg-cache"),
      "--setenv", "XDG_STATE_HOME", XdgDir("xdg-state"),
      "--setenv", "XDG_RUNTIME_DIR", RuntimeDir,
      "--die-with-parent",
      "--perms", "0700",
      "--dir", RuntimeDir,
      "--dev", "/dev",
      "--proc", "/proc",
      "--bind", XdgDir("xdg-cache") \o "/appimage/" \o handle.md5, XdgDir("xdg-cache"),
      "--ro-bind-try", resolve(handle, files, "opt"), "/opt",
      "--ro-bind-try", resolve(handle, files, "bin"), "/bin",
      "--ro-bind-try", resolve(handle, files, "sbin"), "/sbin",
      "--ro-bind-try", resolve(handle, files, "lib"), "/lib",
      "--ro-bind-try", resolve(handle, files, "lib32"), "/lib32",
      "--ro-bind-try", resolve(handle, files, "lib64"), "/lib64",
      "--ro-bind-try", resolve(handle, files, "usr/bin"), "/usr/bin",
      "--ro-bind-try", resolve(handle, files, "usr/sbin"), "/usr/sbin",
      "--ro-bind-try", resolve(handle, files, "usr/lib"), "/usr/lib",
      "--ro-bind-try", resolve(handle, files, "usr/lib32"), "/usr/lib32",
      "--ro-bind-try", resolve(handle, files, "usr/lib64"), "/usr/lib64",
      "--dir", "/app",
      "--bind", Str(handle.Path), "/app/" \o Str(Base(handle.Path))>>

\* mainWrapArgs: the system files and devices level 1 exposes whole
blanketArgs(handle, files) ==
    <<"--dev-bind", "/dev", "/dev",
        "--ro-bind", "/sys", "/sys",
        "--ro-bind-try", resolve(handle, files, "usr"), "/usr",
        "--ro-bind-try", resolve(handle, files, "etc"), "/etc",
        "--ro-bind-try", resolve(handle, files, "/run/systemd"), "/run/systemd">>

\* mainWrapArgs: the system files level 2 exposes one by one
allowListArgs(handle, files) ==
    <<"--ro-bind-try", resolve(handle, files, "etc/fonts"), "/etc/fonts",
        "--ro-bind-try", resolve(handle, files, "etc/ld.so.cache"), "/etc/ld.so.cache",
        "--ro-bind-try", resolve(handle, files, "etc/mime.types"), "/etc/mime.types",
        "--ro-bind-try", resolve(handle, files, "etc/xdg"), "/etc/xdg",
        "--ro-bind-try", resolve(handle, files, "usr/share/fontconfig"), "/usr/share/fontconfig",
        "--ro-bind-try", resolve(handle, files, "usr/share/fonts"), "/usr/share/fonts",
        "--ro-bind-try", resolve(handle, files, "usr/share/icons"), "/usr/share/icons",
        "--ro-bind-try", resolve(handle, files, "usr/share/themes"), "/usr/share/themes",
        "--ro-bind-try", resolve(handle, files, "usr/share/applications"), "/usr/share/applications",
        "--ro-bind-try", resolve(handle, files, "usr/share/mime"), "/usr/share/mime",
        "--ro-bind-try", resolve(handle, files, "usr/share/libdrm"), "/usr/share/libdrm",
        "--ro-bind-try", resolve(handle, files, "usr/share/vulkan"), "/usr/share/vulkan",
        "--ro-bind-try", resolve(handle, files, "usr/share/glvnd"), "/usr/share/glvnd",
        "--ro-bind-try", resolve(handle, files, "usr/share/glib-2.0"), "/usr/share/glib-2.0",
        "--ro-bind-try", resolve(handle, files, "usr/share/terminfo"), "/usr/share/terminfo">>

\* mainWrapArgs with the tier of level 2 added at level 3 as well
tierArgs_FromTwo(handle, files, level) ==
    IF level = 1
    THEN blanketArgs(handle, files) \o userThemeArgs
    ELSE IF level >= 2
    THEN allowListArgs(handle, files) \o userThemeArgs
    ELSE <<>>

\* mainWrapArgs: what the level adds (nothing at level 3)
tierArgs(handle, files, level) ==
    IF level = 1
    THEN blanketArgs(handle, files) \o userThemeArgs
    ELSE IF level = 2
    THEN allowListArgs(handle, files) \o userThemeArgs
    ELSE <<>>

RECURSIVE Flatten(_)
\* the concatenation of a sequence of argument lists (append in a loop)
Flatten(lists) ==
    IF Len(lists) = 0 THEN <<>> ELSE Head(lists) \o Flatten(Tail(lists))

\* the strings a slice of character sequences spells
StrEach(s) == [i \in 1..Len(s) |-> Str(s[i])]

\* os.Getenv of a variable slot: "" when unset
Getenv(slot) == IF Len(slot) = 0 THEN "" ELSE slot[1]

\* parseFiles, one entry: split at ":", the last field is the mode and the
\* rest the path; rw binds, ro binds read-only, any other mode adds nothing.
\* WrapArgs has set $HOME to the real home, so xdg.Home is RealHome here.
fileArgs(val) ==
    LET sl == Split(val, ":")
        ex == sl[Len(sl)]
        dir == Join(SubSeq(sl, 1, Len(sl) - 1), ":")
    IN  IF ex = <<"r", "w">>
        THEN <<"--bind-try", Str(ExpandDir(dir, RealHome)),
               Str(ExpandGenericDir(dir, RealHome))>>
        ELSE IF ex = <<"r", "o">>
        THEN <<"--ro-bind-try", Str(ExpandDir(dir, RealHome)),
               Str(ExpandGenericDir(dir, RealHome))>>
        ELSE <<>>

\* parseFiles
parseFiles(perms) == Flatten([i \in 1..Len(perms.Files) |-> fileArgs(perms.Files[i])])

\* parseDevices, one entry: the device node, under /dev unless it is spelled
\* with the prefix
deviceArgs(v) ==
    LET node == IF Len(v) < 5 \/ SubSeq(v, 1, 5) # <<"/", "d", "e", "v", "/">>
                THEN FilepathClean(<<"/", "d", "e", "v", "/">> \o v)
                ELSE v
    IN  <<"--dev-bind-try", Str(node), Str(node)>>

\* parseDevices: the files required to go along with a device
deviceFiles(handle, files, device) ==
    IF device = "dri"
    THEN <<"--ro-bind", "/sys/dev/char", "/sys/dev/char",
           "--ro-bind", "/sys/devices/pci0000:00", "/sys/devices/pci0000:00",
           "--dev-bind-try", "/dev/nvidiactl", "/dev/nvidiactl",
           "--dev-bind-try", "/dev/nvidia0", "/dev/nvidia0",
           "--dev-bind-try", "/dev/nvidia-modeset", "/dev/nvidia-modeset",
           "--ro-bind-try", resolve(handle, files, "usr/share/glvnd"), "/usr/share/glvnd">>
    ELSE IF device = "input"
    THEN <<"--ro-bind", "/sys/class/input", "/sys/class/input">>
    ELSE <<>>

\* the keys of the devices map
DeviceKeys == <<"dri", "input">>

\* parseDevices: a bind per entry of Devices, then, ranging over the devices
\* map in the order the runtime takes (order), the files of each key that
\* Devices contains as spelled
parseDevices(handle, files, perms, order) ==
    Flatten([i \in 1..Len(perms.Devices) |-> deviceArgs(perms.Devices[i])])
    \o Flatten([k \in 1..Len(order) |->
                    IF Contains(StrEach(perms.Devices), order[k]) > 0
                    THEN deviceFiles(handle, files, order[k])
                    ELSE <<>>])

\* the keys of the sockets map
SocketKeys == <<"alsa", "audio", "cgroup", "dbus", "ipc", "network", "pid",
                "pipewire", "pulseaudio", "session", "user", "uts", "wayland",
                "x11">>

\* parseSockets: the arguments of an enabled socket
sockets(handle, files, environ, socketString) ==
    LET xAuthority == IF Getenv(environ.XAUTHORITY) = ""
                      THEN XdgDir("xdg-home") \o "/.Xauthority"
                      ELSE Getenv(environ.XAUTHORITY)
        xDisplay == Str(ReplaceAll(environ.DISPLAY, <<":">>, <<>>))
        tempDir == IF Len(environ.TMPDIR) = 0 THEN "/tmp" ELSE environ.TMPDIR[1]
        wDisplay == Getenv(environ.WAYLAND_DISPLAY)
        pulse == <<"--ro-bind-try", RuntimeDir \o "/pulse", "/run/user/" \o Uid \o "/pulse">>
    IN  CASE socketString = "alsa" ->
               <<"--ro-bind-try", resolve(handle, files, "/usr/share/alsa"), "/usr/share/alsa",
                 "--ro-bind-try", resolve(handle, files, "/etc/alsa"), "/etc/alsa",
                 "--ro-bind-try", resolve(handle, files, "/etc/group"), "/etc/group",
                 "--dev-bind", resolve(handle, files, "/dev/snd"), "/dev/snd">>
          [] socketString = "audio" ->
               pulse \o
               <<"--ro-bind-try", resolve(handle, files, "/usr/share/alsa"), "/usr/share/alsa",
                 "--ro-bind-try", resolve(handle, files, "/usr/share/pulseaudio"), "/usr/share/pulseaudio",
                 "--ro-bind-try", resolve(handle, files, "/etc/alsa"), "/etc/alsa",
                 "--ro-bind-try", resolve(handle, files, "/etc/group"), "/etc/group",
                 "--ro-bind-try", resolve(handle, files, "/etc/pulse"), "/etc/pulse",
                 "--dev-bind", resolve(handle, files, "/dev/snd"), "/dev/snd">>
          [] socketString = "dbus" ->
               <<"--ro-bind-try", RuntimeDir \o "/bus", "/run/user/" \o Uid \o "/bus">>
          [] socketString = "network" ->
               <<"--share-net",
                 "--ro-bind-try", resolve(handle, files, "/etc/ca-certificates"), "/etc/ca-certificates",
                 "--ro-bind-try", resolve(handle, files, "/etc/resolv.conf"), "/etc/resolv.conf",
                 "--ro-bind-try", resolve(handle, files, "/etc/ssl"), "/etc/ssl",
                 "--ro-bind-try", resolve(handle, files, "/etc/pki"), "/etc/pki",
                 "--ro-bind-try", resolve(handle, files, "/usr/share/ca-certificates"),
                                  "/usr/share/ca-certificates">>
          [] socketString = "pipewire" ->
               <<"--ro-bind-try", RuntimeDir \o "/pipewire-0",
                 "/run/user/" \o Uid \o "/pipewire-0">>
          [] socketString = "pulseaudio" ->
               pulse \o
               <<"--ro-bind-try", resolve(handle, files, "/etc/pulse"), "/etc/pulse">>
          [] socketString = "wayland" ->
               <<"--ro-bind-try",
                 IF wDisplay = "" THEN RuntimeDir ELSE RuntimeDir \o "/" \o wDisplay,
                 "/run/user/" \o Uid \o "/wayland-0",
                 "--ro-bind-try", resolve(handle, files, "/usr/share/X11"), "/usr/share/X11",
                 "--setenv", "WAYLAND_DISPLAY", "wayland-0",
                 "--setenv", "_JAVA_AWT_WM_NONREPARENTING", "1",
                 "--setenv", "MOZ_ENABLE_WAYLAND", "1",
                 "--setenv", "XDG_SESSION_TYPE", "wayland">>
          [] socketString = "x11" ->
               <<"--ro-bind-try", xAuthority, XdgDir("xdg-home") \o "/.Xauthority",
                 "--ro-bind-try", tempDir \o "/.X11-unix/X" \o xDisplay,
                                  "/tmp/.X11-unix/X" \o xDisplay,
                 "--ro-bind-try", resolve(handle, files, "/usr/share/X11"), "/usr/share/X11",
                 "--setenv", "QT_QPA_PLATFORM", "xcb",
                 "--setenv", "XAUTHORITY", XdgDir("xdg-home") \o "/.Xauthority">>
          [] OTHER -> <<>>

\* parseSockets: the unsocks map without an argument for session
unsocks_NoNewSession(socketString) ==
    CASE socketString = "cgroup" -> <<"--unshare-cgroup-try">>
      [] socketString = "ipc" -> <<"--unshare-ipc">>
      [] socketString = "network" -> <<"--unshare-net">>
      [] socketString = "pid" -> <<"--unshare-pid">>
      [] socketString = "user" -> <<"--unshare-user-try">>
      [] socketString = "uts" -> <<"--unshare-uts">>
      [] OTHER -> <<>>

\* parseSockets: the arguments that disable a socket not given
unsocks(socketString) ==
    CASE socketString = "cgroup" -> <<"--unshare-cgroup-try">>
      [] socketString = "ipc" -> <<"--unshare-ipc">>
      [] socketString = "network" -> <<"--unshare-net">>
      [] socketString = "pid" -> <<"--unshare-pid">>
      [] socketString = "session" -> <<"--new-session">>
      [] socketString = "user" -> <<"--unshare-user-try">>
      [] socketString = "uts" -> <<"--unshare-uts">>
      [] OTHER -> <<>>

\* parseSockets, one key, without the rule that skips x11 under Wayland
socketArgs_NoSuppression(handle, files, environ, perms, socketString) ==
    LET granted == {Str(perms.Sockets[i]) : i \in 1..Len(perms.Sockets)}
    IN  IF socketString \in granted
        THEN IF socketString = "network" /\ perms.Level = 1
             THEN <<"--share-net">>
             ELSE sockets(handle, files, environ, socketString)
        ELSE unsocks(socketString)

\* parseSockets, one key of the sockets map: the socket's arguments when
\* Sockets holds it (none for x11 when the host runs Wayland and Sockets
\* holds wayland; only --share-net for network at level 1), else the
\* arguments that disable it
socketArgs(handle, files, environ, perms, socketString) ==
    LET granted == {Str(perms.Sockets[i]) : i \in 1..Len(perms.Sockets)}
        waylandEnabled == Len(environ.WAYLAND_DISPLAY) > 0
    IN  IF socketString \in granted
        THEN IF waylandEnabled /\ "wayland" \in granted /\ socketString = "x11"
             THEN <<>>
             ELSE IF socketString = "network" /\ perms.Level = 1
             THEN <<"--share-net">>
             ELSE sockets(handle, files, environ, socketString)
        ELSE unsocks(socketString)

\* parseSockets: ranging over the sockets map in the order the runtime takes
parseSockets(handle, files, environ, perms, order) ==
    Flatten([k \in 1..Len(order) |-> socketArgs(handle, files, environ, perms, order[k])])

\* mainWrapArgs with the home appended where the code puts it in front
mainWrapArgs_HomeAppended(handle, files, environ, perms, socketOrder, deviceOrder) ==
    <<"--bind", handle.tempDir, "/tmp",
      "--bind", handle.mountDir, AppDir(handle)>>
    \o baseArgs(handle, files)
    \o tierArgs(handle, files, perms.Level)
    \o parseFiles(perms)
    \o parseSockets(handle, files, environ, perms, socketOrder)
    \o parseDevices(handle, files, perms, deviceOrder)
    \o (IF perms.DataDir
        THEN <<"--bind", handle.dataDir, XdgDir("xdg-home")>>
        ELSE <<"--tmpfs", XdgDir("xdg-home")>>)
    \o <<"--", AppDir(handle) \o "/AppRun">>

\* mainWrapArgs: base, tier, files, sockets, devices and the entry point;
\* then the home is put in front, and the temporary and mount directories
\* in front of that
mainWrapArgs(handle, files, environ, perms, socketOrder, deviceOrder) ==
    <<"--bind", handle.tempDir, "/tmp",
      "--bind", handle.mountDir, AppDir(handle)>>
    \o (IF perms.DataDir
        THEN <<"--bind", handle.dataDir, XdgDir("xdg-home")>>
        ELSE <<"--tmpfs", XdgDir("xdg-home")>>)
    \o baseArgs(handle, files)
    \o tierArgs(handle, files, perms.Level)
    \o parseFiles(perms)
    \o parseSockets(handle, files, environ, perms, socketOrder)
    \o parseDevices(handle, files, perms, deviceOrder)
    \o <<"--", AppDir(handle) \o "/AppRun">>

\* WrapArgs without the early return at level 0
WrapArgs_NoLevelZero(handle, files, environ, perms, args, socketOrder, deviceOrder) ==
    IF ~IsMounted(handle)
    THEN [cmdArgs |-> <<>>, err |-> "AppImage must be mounted"]
    ELSE [cmdArgs |-> mainWrapArgs(handle, files, environ, perms, socketOrder,
                                   deviceOrder) \o args,
          err |-> "nil"]

\* WrapArgs: an error for a handle that is not mounted, the caller's
\* arguments at level 0, else mainWrapArgs followed by the caller's arguments
WrapArgs(handle, files, environ, perms, args, socketOrder, deviceOrder) ==
    IF ~IsMounted(handle)
    THEN [cmdArgs |-> <<>>, err |-> "AppImage must be mounted"]
    ELSE IF perms.Level = 0
    THEN [cmdArgs |-> args, err |-> "nil"]
    ELSE [cmdArgs |-> mainWrapArgs(handle, files, environ, perms, socketOrder,
                                   deviceOrder) \o args,
          err |-> "nil"]

----------------------------------------------------------------------------
(* utility.go: detection of the bundle type and of the image offset.  A     *)
(* bundle file is what the detector reads of it: the magic at offset 0, the  *)
(* marker at offset 8, whether elf.NewFile accepts it, the class and the     *)
(* section-header fields of the ELF header, and the value of the sfs_offset  *)
(* line of a shell-script bundle (NoFile: no such line).  elf.NewFile        *)
(* accepts the classes 32 and 64 only, and for a header it accepts the       *)
(* section-header table lies in the file, so shoff + shentsize * shnum is    *)
(* within the int of the build.                                              *)

\* GetAppImageType: 1 and 2 for an ELF with the marker of that type, 0 for
\* another ELF, -2 for a shell-script bundle; an error for a file that cannot
\* be opened and for any other file
GetAppImageType(file) ==
    IF file = NoFile THEN [type |-> -1, err |-> "open failed"]
    ELSE IF file.magic = "elf"
    THEN IF file.marker = 1 THEN [type |-> 1, err |-> "nil"]
         ELSE IF file.marker = 2 THEN [type |-> 2, err |-> "nil"]
         ELSE [type |-> 0, err |-> "nil"]
    ELSE IF file.magic = "shImg" THEN [type |-> -2, err |-> "nil"]
    ELSE [type |-> -1, err |-> "unable to get AppImage type"]

\* strings.ReplaceAll of both quote characters by nothing
StripQuotes(str) == SelectSeq(str, LAMBDA c : c \notin {"'", "\""})

\* getShappImageSize: Atoi of the unquoted value of the first sfs_offset
\* line, with the error of Atoi; -1 and an error without such a line
getShappImageSize(file) ==
    IF file.sfs = NoFile
    THEN [n |-> -1, err |-> "unable to find shappimage offset"]
    ELSE Atoi(StripQuotes(file.sfs[1]))

\* getElfSize: the error of elf.NewFile, else the section-header offset plus
\* the size of the section-header table, by the header of either class
getElfSize(file) ==
    IF ~file.parses THEN [n |-> -1, err |-> "bad ELF"]
    ELSE IF file.class \in {32, 64}
    THEN [n |-> file.shoff + (file.shentsize * file.shnum), err |-> "nil"]
    ELSE [n |-> 0, err |-> "nil"]

\* GetOffset: the offset by the type of the bundle; types other than -2 and 2
\* are an error
GetOffset(file) ==
    LET format == GetAppImageType(file)
    IN  IF format.err # "nil" THEN [n |-> -1, err |-> format.err]
        ELSE IF format.type = -2 THEN getShappImageSize(file)
        ELSE IF format.type = 2 THEN getElfSize(file)
        ELSE IF format.type = 0
        THEN [n |-> -1, err |-> "AppImage missing magic at offset 0x08"]
        ELSE [n |-> -1, err |-> "unsupported AppImage type"]

RECURSIVE ItoaDigits(_)
\* the decimal digits of a natural number, most significant first
ItoaDigits(n) ==
    IF n < 10 THEN <<Digits[n + 1]>>
    ELSE Append(ItoaDigits(n \div 10), Digits[(n % 10) + 1])

\* strconv.Itoa
Itoa(n) == IF n < 0 THEN <<"-">> \o ItoaDigits(0 - n) ELSE ItoaDigits(n)

----------------------------------------------------------------------------
(* appimage.go: mounting.  The host holds the directories that exist          *)
(* (files.dirs) and the directories an image is mounted on (files.mounts);    *)
(* sys holds the outcomes the host decides.                                    *)

\* the error values of the package
NilAppImage == "AppImage is nil"
NoPath == "AppImage contains no path"
NotMounted == "AppImage is not mounted"
NoMountPoint == "mount point doesn't exist"

\* isMountPoint: the directory is listed in /proc/self/mountinfo
isMountPoint(files, dir) == dir \in files.mounts

\* mount: squashfuse mounts src on dest; it fails without the binary, on a
\* destination that is no directory, and when the host makes it fail
mount(files, dest, sys) ==
    IF ~sys.squashfuse
    THEN [fs |-> files, err |-> "failed to find squashfuse binary"]
    ELSE IF dest \notin files.dirs \/ ~sys.run
    THEN [fs |-> files, err |-> "squashfuse failed"]
    ELSE [fs |-> [files EXCEPT !.mounts = @ \cup {dest}], err |-> "nil"]

\* MakeTemp: the joined path, and the error of MkdirAll
MakeTemp(files, path, name, ok) ==
    IF ok
    THEN [dir |-> path \o "/" \o name,
          fs |-> [files EXCEPT !.dirs = @ \cup {path \o "/" \o name}],
          err |-> "nil"]
    ELSE [dir |-> path \o "/" \o name, fs |-> files, err |-> "mkdir failed"]

\* Mount(dest): NoMountPoint for a destination that is no directory; else
\* the image is mounted on ai.mountDir unless that is a mount point already.
\* The handle is not changed.
MountAt(handle, files, dest, sys) ==
    IF dest \notin files.dirs
    THEN [ai |-> handle, fs |-> files, err |-> NoMountPoint]
    ELSE IF ~isMountPoint(files, handle.mountDir)
    THEN LET done(m) == [ai |-> handle, fs |-> m.fs, err |-> m.err]
         IN  done(mount(files, handle.mountDir, sys))
    ELSE [ai |-> handle, fs |-> files, err |-> "nil"]

\* Mount(): tempDir and mountDir are assigned what MakeTemp returns, error or
\* not; the image is mounted on mountDir unless that is a mount point already
Mount(handle, files, sys) ==
    LET mounted(h, m) == [ai |-> h, fs |-> m.fs, err |-> m.err]
        second(h, t) ==
            IF t.err # "nil"
            THEN [ai |-> [h EXCEPT !.mountDir = t.dir], fs |-> t.fs, err |-> t.err]
            ELSE IF ~isMountPoint(t.fs, t.dir)
            THEN mounted([h EXCEPT !.mountDir = t.dir], mount(t.fs, t.dir, sys))
            ELSE [ai |-> [h EXCEPT !.mountDir = t.dir], fs |-> t.fs, err |-> "nil"]
        first(t) ==
            IF t.err # "nil"
            THEN [ai |-> [handle EXCEPT !.tempDir = t.dir], fs |-> t.fs, err |-> t.err]
            ELSE second([handle EXCEPT !.tempDir = t.dir],
                        MakeTemp(t.fs, RuntimeDir \o "/aisap/mount", handle.md5,
                                 sys.mkdirMount))
    IN  first(MakeTemp(files, RuntimeDir \o "/aisap/tmp", handle.md5, sys.mkdirTemp))

\* unmountDir: fusermount -uz (or umount -l) of a mount point
unmountDir(files, mntPt, sys) ==
    IF mntPt \in files.mounts /\ sys.umount
    THEN [fs |-> [files EXCEPT !.mounts = @ \ {mntPt}], err |-> "nil"]
    ELSE [fs |-> files, err |-> "umount failed"]

\* Destroy: unmounts the mount directory, clears it and removes the
\* temporary directory
Destroy(handle, files, sys) ==
    LET after(u) ==
            IF u.err # "nil"
            THEN [ai |-> handle, fs |-> u.fs, err |-> u.err]
            ELSE IF sys.removeAll
            THEN [ai |-> [handle EXCEPT !.mountDir = ""],
                  fs |-> [u.fs EXCEPT !.dirs = @ \ {handle.tempDir}],
                  err |-> "nil"]
            ELSE [ai |-> [handle EXCEPT !.mountDir = ""], fs |-> u.fs,
                  err |-> "remove failed"]
    IN  IF Len(handle.Path) = 0
        THEN [ai |-> handle, fs |-> files, err |-> NoPath]
        ELSE IF ~IsMounted(handle)
        THEN [ai |-> handle, fs |-> files, err |-> NotMounted]
        ELSE after(unmountDir(files, handle.mountDir, sys))

----------------------------------------------------------------------------
(* wrap.go and chains.go: launching *)

\* Sandbox: an error for a level outside 1..3, when the cache directory or
\* the data directory cannot be made, when WrapArgs fails and when bwrap is
\* not found; else bwrap is run with the arguments WrapArgs returns (ran
\* holds the argument list of each run)
Sandbox(handle, files, environ, perms, args, socketOrder, deviceOrder, sys) ==
    LET wrapped(w) ==
            IF w.err # "nil" THEN [ran |-> <<>>, err |-> w.err]
            ELSE IF ~sys.bwrap THEN [ran |-> <<>>, err |-> "failed to find bwrap"]
            ELSE [ran |-> <<w.cmdArgs>>, err |-> "nil"]
    IN  IF perms.Level < 1 \/ perms.Level > 3
        THEN [ran |-> <<>>, err |-> "permissions level must be 1 - 3"]
        ELSE IF ~sys.mkdirCache
        THEN [ran |-> <<>>, err |-> "mkdir failed"]
        ELSE IF perms.DataDir /\ ~sys.mkdirData
        THEN [ran |-> <<>>, err |-> "mkdir failed"]
        ELSE wrapped(WrapArgs(handle, files, environ, perms, args, socketOrder,
                              deviceOrder))

\* setPermissions, on a command line without --profile, --add-file and
\* --rm-file: GetPermissions, then the --level flag when it is in 0..3, then
\* level 3 for a level out of range
setPermissions(handle, profiles, raw, prefer, level) ==
    LET leveled(q) == IF q.Level < 0 \/ q.Level > 3 THEN [q EXCEPT !.Level = 3] ELSE q
        flagged(q) == IF level > -1 /\ level <= 3 THEN [q EXCEPT !.Level = level] ELSE q
        done(r) == IF r.err # "nil" \/ r.panic THEN r
                   ELSE [perms |-> leveled(flagged(r.perms)), err |-> "nil",
                         panic |-> FALSE]
    IN  done(GetPermissions(handle, profiles, raw, prefer))

\* configureAppImage as it would be without the test of trust
configureAppImage_NoGate(handle, files, trust, trustOnce, sys) ==
    LET gate(after) ==
            [fs |-> after, trusted |-> Trusted(after, handle), err |-> "nil"]
    IN  gate(IF trust = "unset" THEN files
             ELSE aiSetTrusted(files, handle, trust = "true", sys).fs)

\* configureAppImage, on a command line without --root-dir, --data-dir and
\* --no-data-dir: ai.SetTrusted when --trust is used (its error dropped),
\* then an error unless ai.Trusted() or --trust-once
configureAppImage(handle, files, trust, trustOnce, sys) ==
    LET gate(after) ==
            [fs |-> after, trusted |-> Trusted(after, handle),
             err |-> IF ~Trusted(after, handle) /\ ~trustOnce
                     THEN "bundle isn't marked trusted" ELSE "nil"]
    IN  gate(IF trust = "unset" THEN files
             ELSE aiSetTrusted(files, handle, trust = "true", sys).fs)

----------------------------------------------------------------------------
(* Inputs *)

\* all sequences over S of length 1..n
Batches(S, n) == UNION {[1..k -> S] : k \in 1..n}

\* file arguments a caller passes: explicit modes, no mode, a trailing slash,
\* a tilde path and an xdg path
FileArgs == {
    <<"/", "x", ":", "r", "w">>,
    <<"/", "x", ":", "r", "o">>,
    <<"/", "x", "/">>,
    <<"~", "/", "y">>,
    <<"x", "d", "g", "-", "h", "o", "m", "e", "/", "y", ":", "r", "w">>
}

\* bundle names (AppImage.Name, the file name of a persisted profile)
BundleNames == {<<"a", "b">>, <<"A", "b">>}

\* values of the Level key: in range, out of range, negative, not a number, absent
LevelTexts == {<<"2">>, <<"0">>, <<"5">>, <<"-", "1">>, <<"x">>, <<>>}

\* values of the Files key
FilesTexts == {<<>>, <<"/", "x", ":", "r", "w", ";", "~", "/", "y">>}

\* values of the Devices key
DevicesTexts == {<<>>,
    <<"d", "r", "i", ";", "/", "d", "e", "v", "/", "i", "n", "p", "u", "t", ";">>}

\* values of the Sockets key: absent, the list "x11;wayland;", a single token,
\* and a list with a token outside the enumeration
SocketsTexts == {<<>>,
    <<"x", "1", "1", ";", "w", "a", "y", "l", "a", "n", "d", ";">>,
    <<"x", "1", "1">>,
    <<"x", "1", "1", ";", "b", "o", "g", "u", "s", ";", "w", "a", "y", "l", "a", "n", "d">>}

\* values of the DataDir key
DataDirTexts == {<<>>, <<"f", "a", "l", "s", "e">>}

\* profile texts a reader or a desktop entry holds
IniTexts ==
    [ok : {TRUE}, Level : LevelTexts, Files : FilesTexts, Devices : DevicesTexts,
     Sockets : SocketsTexts, DataDir : DataDirTexts]

\* profile texts a file of the chains profile directory holds
ProfileTexts == {
    [ok |-> TRUE, Level |-> <<"2">>, Files |-> <<>>, Devices |-> <<>>,
     Sockets |-> <<"x", "1", "1", ";", "w", "a", "y", "l", "a", "n", "d", ";">>,
     DataDir |-> <<>>],
    [ok |-> TRUE, Level |-> <<"5">>, Files |-> <<>>, Devices |-> <<>>,
     Sockets |-> <<"x", "1", "1">>, DataDir |-> <<>>],
    [ok |-> TRUE, Level |-> <<"x">>, Files |-> <<>>, Devices |-> <<>>,
     Sockets |-> <<>>, DataDir |-> <<"f", "a", "l", "s", "e">>],
    MalformedText
}

\* a host with no profile in either directory and no bundle file
EmptyFs == [chains |-> [n \in BundleNames |-> NoFile],
            aisap |-> [n \in BundleNames |-> FALSE],
            bundle |-> NoFile]

\* the desktop entry of no handle
NoDesktop == [Level |-> <<>>, Files |-> <<>>, Devices |-> <<>>, Sockets |-> <<>>,
              DataDir |-> <<>>]

\* the handle of the specifications that open no bundle
NoHandle == [Name |-> <<>>, Desktop |-> NoDesktop]

\* the process of the specifications that run no command line
NoProcess == [pc |-> "none"]

\* desktop entries of a bundle: level 1 with two sockets, a level out of
\* range, no Level key
DesktopEntries == {
    [NoDesktop EXCEPT !.Level = <<"1">>,
        !.Sockets = <<"x", "1", "1", ";", "w", "a", "y", "l", "a", "n", "d", ";">>],
    [NoDesktop EXCEPT !.Level = <<"5">>],
    NoDesktop
}

\* catalog entries: one with two aliases and a file to clean, one repeating
\* an alias of the first, one whose alias has an upper-case letter, one with
\* a level the database does not bound
CatalogEntries == {
    [EmptyPerms EXCEPT !.Names = <<<<"a", "b">>, <<"c", "d">>>>, !.Level = 1,
        !.Files = <<<<"~", "/", "y">>>>, !.DataDir = TRUE],
    [EmptyPerms EXCEPT !.Names = <<<<"a", "b">>>>, !.Level = 2,
        !.Sockets = <<<<"x", "1", "1">>>>],
    [EmptyPerms EXCEPT !.Names = <<<<"A", "b">>>>, !.Level = 3],
    [EmptyPerms EXCEPT !.Names = <<<<"c", "d">>>>, !.Level = 7]
}

\* the catalogs: every list of at most MaxCatalog entries
Catalogs == UNION {[1..k -> CatalogEntries] : k \in 0..MaxCatalog}

\* names looked up in the catalog
LookupNames == {<<"a", "b">>, <<"A", "b">>, <<"A", "B">>, <<"c", "d">>,
                <<"C", "D">>, <<"z", "z">>}

\* file modes of the bundle: 0644, 0744, 0654 (group may execute, the owner
\* may not), 0100
BundleModes == {420, 484, 428, 64}

----------------------------------------------------------------------------
(* The file-grant machine: AddFiles and RemoveFiles on one model *)

InitFiles ==
    /\ p = EmptyPerms
    /\ op = ""
    /\ arg = <<>>
    /\ pre = EmptyPerms
    /\ ret = "nil"
    /\ panicked = FALSE
    /\ fs = EmptyFs
    /\ env = [PREFER_CHAINS_PROFILE |-> FALSE]
    /\ RawProfiles = <<>>
    /\ ai = NoHandle
    /\ proc = NoProcess

CallAddFiles ==
    \E s \in Batches(FileArgs, MaxBatch) : \E files \in {AddFiles(p.Files, s)} :
        /\ Len(files) <= MaxFiles
        /\ p' = [p EXCEPT !.Files = files]
        /\ op' = "AddFiles"
        /\ arg' = s
        /\ pre' = p
        /\ ret' = "nil"
        /\ UNCHANGED <<panicked, host>>

CallRemoveFiles ==
    \E s \in Batches(FileArgs, MaxBatch) :
        /\ p' = [p EXCEPT !.Files = RemoveFiles(p.Files, s)]
        /\ op' = "RemoveFiles"
        /\ arg' = s
        /\ pre' = p
        /\ ret' = "nil"
        /\ UNCHANGED <<panicked, host>>

NextFiles == CallAddFiles \/ CallRemoveFiles

SpecFiles == InitFiles /\ [][NextFiles]_vars

----------------------------------------------------------------------------
(* The device-grant machine: AddDevices and RemoveDevices on one model *)

InitDevices == InitFiles

CallAddDevices ==
    \E s \in Batches(DeviceArgs, MaxBatch) : \E devices \in {AddDevices(p.Devices, s)} :
        /\ Len(devices) <= MaxDevices
        /\ p' = [p EXCEPT !.Devices = devices]
        /\ op' = "AddDevices"
        /\ arg' = s
        /\ pre' = p
        /\ ret' = "nil"
        /\ UNCHANGED <<panicked, host>>

CallRemoveDevices ==
    \E s \in Batches(DeviceArgs, MaxBatch) :
        /\ p' = [p EXCEPT !.Devices = RemoveDevices(p.Devices, s)]
        /\ op' = "RemoveDevices"
        /\ arg' = s
        /\ pre' = p
        /\ ret' = "nil"
        /\ UNCHANGED <<panicked, host>>

NextDevices == CallAddDevices \/ CallRemoveDevices

SpecDevices == InitDevices /\ [][NextDevices]_vars

----------------------------------------------------------------------------
(* The socket-grant machine: AddSockets and RemoveSockets on one model.    *)
(* A runtime panic ends the process: no call follows it.                   *)

InitSockets == InitFiles

CallAddSockets ==
    \E s \in Batches(SocketArgs, MaxSocketBatch) :
        \E r \in {AddSockets(p.Sockets, s)} :
            /\ ~panicked
            /\ Len(r.s) <= MaxSockets
            /\ p' = [p EXCEPT !.Sockets = r.s]
            /\ op' = "AddSockets"
            /\ arg' = s
            /\ pre' = p
            /\ ret' = r.err
            /\ panicked' = r.panic
            /\ UNCHANGED host

CallRemoveSockets ==
    \E s \in Batches(SocketArgs, MaxSocketBatch) :
        \E r \in {RemoveSockets(p.Sockets, s)} :
            /\ ~panicked
            /\ p' = [p EXCEPT !.Sockets = r.s]
            /\ op' = "RemoveSockets"
            /\ arg' = s
            /\ pre' = p
            /\ ret' = IF r.panic THEN "panic" ELSE "nil"
            /\ panicked' = r.panic
            /\ UNCHANGED host

NextSockets == CallAddSockets \/ CallRemoveSockets

SpecSockets == InitSockets /\ [][NextSockets]_vars

----------------------------------------------------------------------------
(* The constructors: FromIni, FromReader and FromSystem on profile text.    *)
(* Each builds a fresh model from its input alone, so a behaviour is one     *)
(* call on one input (op = "" until the call is made).                       *)

InitIni ==
    /\ p = EmptyPerms
    /\ op = ""
    /\ arg = <<>>
    /\ pre = EmptyPerms
    /\ ret = "nil"
    /\ panicked = FALSE
    /\ \E c \in [BundleNames -> {<<t>> : t \in ProfileTexts} \cup {NoFile}] :
          fs = [EmptyFs EXCEPT !.chains = c]
    /\ env = [PREFER_CHAINS_PROFILE |-> FALSE]
    /\ RawProfiles = <<>>
    /\ ai = NoHandle
    /\ proc = NoProcess

\* FromIni on a desktop entry loaded with IgnoreInlineComment (NewAppImage,
\* loadFallbackProfile)
CallFromIni ==
    \E text \in IniTexts :
        \E e \in {iniLoad(text, TRUE).e} : \E r \in {FromIni(e)} :
            /\ op = ""
            /\ op' = "FromIni"
            /\ arg' = e
            /\ ret' = [perms |-> r.perms, err |-> r.err]
            /\ panicked' = r.panic
            /\ UNCHANGED <<p, pre, host>>

CallFromReader ==
    \E text \in IniTexts \cup {MalformedText} :
        \E r \in {FromReader(text)} :
            /\ op = ""
            /\ op' = "FromReader"
            /\ arg' = text
            /\ ret' = [perms |-> r.perms, err |-> r.err]
            /\ panicked' = r.panic
            /\ UNCHANGED <<p, pre, host>>

CallFromSystem ==
    \E name \in BundleNames :
        \E r \in {FromSystem(fs.chains, name)} :
            /\ op = ""
            /\ op' = "FromSystem"
            /\ arg' = name
            /\ ret' = [perms |-> r.perms, err |-> r.err]
            /\ panicked' = r.panic
            /\ UNCHANGED <<p, pre, host>>

NextIni == CallFromIni \/ CallFromReader \/ CallFromSystem

SpecIni == InitIni /\ [][NextIni]_vars

----------------------------------------------------------------------------
(* The catalog: FromName on a catalog *)

InitCatalog ==
    /\ p = EmptyPerms
    /\ op = ""
    /\ arg = <<>>
    /\ pre = EmptyPerms
    /\ ret = "nil"
    /\ panicked = FALSE
    /\ fs = EmptyFs
    /\ env = [PREFER_CHAINS_PROFILE |-> FALSE]
    /\ RawProfiles \in Catalogs
    /\ ai = NoHandle
    /\ proc = NoProcess

CallFromName ==
    \E name \in LookupNames :
        \E r \in {FromName(RawProfiles, name)} :
            /\ op' = "FromName"
            /\ arg' = name
            /\ ret' = [perms |-> r.perms, err |-> r.err]
            /\ RawProfiles' = RawProfilesAfterFromName(RawProfiles, name)
            /\ UNCHANGED <<p, pre, panicked, fs, env, ai, proc>>

NextCatalog == CallFromName

SpecCatalog == InitCatalog /\ [][NextCatalog]_vars

----------------------------------------------------------------------------
(* Resolution: GetPermissions for one bundle on one host *)

InitResolve ==
    /\ p = EmptyPerms
    /\ op = ""
    /\ arg = <<>>
    /\ pre = EmptyPerms
    /\ ret = "nil"
    /\ panicked = FALSE
    /\ \E name \in BundleNames, d \in DesktopEntries :
          ai = [Name |-> name, Desktop |-> d]
    /\ \E f \in {<<t>> : t \in ProfileTexts} \cup {NoFile} :
          fs = [EmptyFs EXCEPT !.chains[ai.Name] = f]
    /\ \E b \in BOOLEAN : env = [PREFER_CHAINS_PROFILE |-> b]
    /\ RawProfiles \in Catalogs
    /\ proc = NoProcess

CallGetPermissions ==
    \E r \in {GetPermissions(ai, fs.chains, RawProfiles, env.PREFER_CHAINS_PROFILE)} :
        /\ op = ""
        /\ op' = "GetPermissions"
        /\ arg' = ai.Name
        /\ ret' = [perms |-> r.perms, err |-> r.err]
        /\ panicked' = r.panic
        /\ RawProfiles' =
              IF GetPermissionsCallsFromName(ai, fs.chains, env.PREFER_CHAINS_PROFILE)
              THEN RawProfilesAfterFromName(RawProfiles, ai.Name)
              ELSE RawProfiles
        /\ UNCHANGED <<p, pre, fs, env, ai, proc>>

NextResolve == CallGetPermissions

SpecResolve == InitResolve /\ [][NextResolve]_vars

----------------------------------------------------------------------------
(* Trust: the trust predicates on a host *)

InitTrust ==
    /\ p = EmptyPerms
    /\ op = ""
    /\ arg = <<>>
    /\ pre = EmptyPerms
    /\ ret = "nil"
    /\ panicked = FALSE
    /\ \E name \in BundleNames : ai = [Name |-> name, Desktop |-> NoDesktop]
    /\ \E c \in [BundleNames -> {NoFile, <<MalformedText>>}],
          a \in [BundleNames -> BOOLEAN],
          b \in {NoFile} \cup {<<m>> : m \in BundleModes} :
          fs = [chains |-> c, aisap |-> a, bundle |-> b]
    /\ env = [PREFER_CHAINS_PROFILE |-> FALSE]
    /\ RawProfiles = <<>>
    /\ proc = NoProcess

\* IsTrusted(name, ai.Path)
CallIsTrusted ==
    \E name \in BundleNames :
        /\ op' = "IsTrusted"
        /\ arg' = name
        /\ ret' = IsTrusted(fs, name)
        /\ UNCHANGED <<p, pre, panicked, host>>

\* ai.Trusted()
CallTrusted ==
    /\ op' = "Trusted"
    /\ arg' = ai.Name
    /\ ret' = Trusted(fs, ai)
    /\ UNCHANGED <<p, pre, panicked, host>>

NextTrust == CallIsTrusted \/ CallTrusted

SpecTrust == InitTrust /\ [][NextTrust]_vars

----------------------------------------------------------------------------
(* The trust store: enabling and disabling trust on a host *)

\* outcomes of the system calls the host decides
SysOutcomes ==
    [mkdir : BOOLEAN, chmod : BOOLEAN, create : BOOLEAN, write : BOOLEAN,
     remove : BOOLEAN]

\* a profile the trust mechanism persisted earlier
PersistedText == DesktopText([NoDesktop EXCEPT !.Level = <<"2">>])

InitTrustStore ==
    /\ p = EmptyPerms
    /\ op = ""
    /\ arg = <<>>
    /\ pre = EmptyPerms
    /\ ret = "nil"
    /\ panicked = FALSE
    /\ \E name \in BundleNames, d \in DesktopEntries : ai = [Name |-> name, Desktop |-> d]
    /\ \E c \in [BundleNames -> {NoFile, <<PersistedText>>}],
          a \in [BundleNames -> BOOLEAN],
          b \in {NoFile} \cup {<<m>> : m \in BundleModes},
          dir \in BOOLEAN :
          /\ (\E n \in BundleNames : c[n] # NoFile) => dir
          /\ fs = [chains |-> c, aisap |-> a, bundle |-> b, profilesDir |-> dir]
    /\ env = [PREFER_CHAINS_PROFILE |-> FALSE]
    /\ RawProfiles = <<>>
    /\ proc = NoProcess

\* ai.SetTrusted(trusted)
CallAiSetTrusted ==
    \E trusted \in BOOLEAN, sys \in SysOutcomes :
        \E r \in {aiSetTrusted(fs, ai, trusted, sys)} :
            /\ op' = "ai.SetTrusted"
            /\ arg' = [name |-> ai.Name, trusted |-> trusted]
            /\ ret' = r.err
            /\ fs' = r.fs
            /\ UNCHANGED <<p, pre, panicked, env, RawProfiles, ai, proc>>

\* SetTrusted(name, ai.Path, ai, trusted)
CallSetTrusted ==
    \E name \in BundleNames, trusted \in BOOLEAN, sys \in SysOutcomes :
        \E r \in {SetTrusted(fs, name, ai, trusted, sys)} :
            /\ op' = "SetTrusted"
            /\ arg' = [name |-> name, trusted |-> trusted]
            /\ ret' = r.err
            /\ fs' = r.fs
            /\ UNCHANGED <<p, pre, panicked, env, RawProfiles, ai, proc>>

NextTrustStore == CallAiSetTrusted \/ CallSetTrusted

SpecTrustStore == InitTrustStore /\ [][NextTrustStore]_vars

----------------------------------------------------------------------------
(* The policy compiler: WrapArgs on a handle *)

\* s from its last element to its first
Reverse(s) == [i \in 1..Len(s) |-> s[Len(s) + 1 - i]]

\* s started at its k-th next element
Rotate(s, k) == [i \in 1..Len(s) |-> s[((i + k - 1) % Len(s)) + 1]]

\* how far the third order of the sockets map is rotated
SocketRotation == 5

\* orders in which a range over the sockets map visits its keys (the runtime
\* picks one at every range; three of them)
SocketOrders == {SocketKeys, Reverse(SocketKeys), Rotate(SocketKeys, SocketRotation)}

\* orders in which a range over the devices map visits its keys
DeviceOrders == {DeviceKeys, Reverse(DeviceKeys)}

\* Files of a permission model: none, and an xdg rw grant with an absolute ro
\* grant and a grant of an unknown mode
WrapFiles == {<<>>,
    <<<<"x", "d", "g", "-", "d", "o", "w", "n", "l", "o", "a", "d", ":", "r", "w">>, <<"/", "e", "t", "c", "/", "h", "o", "s", "t", "s", ":", "r", "o">>, <<"/", "x", ":", "n", "o">>>>}

\* Devices of a permission model: a device spelled by name and by node, one
\* named twice, and devices with and without required files
WrapDevices == {<<>>,
    <<<<"d", "r", "i">>>>,
    <<<<"/", "d", "e", "v", "/", "d", "r", "i">>>>,
    <<<<"d", "r", "i">>, <<"d", "r", "i">>>>,
    <<<<"/", "d", "e", "v", "/", "i", "n", "p", "u", "t">>, <<"v", "i", "d", "e", "o", "0">>, <<"d", "r", "i">>>>}

\* Sockets of a permission model
WrapSockets == {<<>>,
    <<<<"x", "1", "1">>>>,
    <<<<"w", "a", "y", "l", "a", "n", "d">>, <<"x", "1", "1">>>>,
    <<<<"n", "e", "t", "w", "o", "r", "k">>, <<"x", "1", "1">>, <<"a", "u", "d", "i", "o">>>>,
    <<<<"n", "e", "t", "w", "o", "r", "k">>, <<"p", "i", "d">>, <<"u", "t", "s">>, <<"u", "s", "e", "r">>, <<"c", "g", "r", "o", "u", "p">>, <<"s", "e", "s", "s", "i", "o", "n">>, <<"i", "p", "c">>>>}

\* the arguments a caller passes on to the application
CallerArgs == {<<"--unshare-net">>, <<"--dev-bind", "/dev", "/dev", "--", "x">>}

\* the root directories a handle is given (SetRootDir)
RootDirs == {"/", "/gobo"}

\* the md5 of the URI of the bundle of the model
BundleMd5 == "d41d"

\* the handle NewAppImage returns for the bundle at /o/a.AppImage, mounted
\* at mountDir or (mountDir "") not mounted
WrapHandle(mountDir) ==
    [Name |-> <<"a", "b">>, Desktop |-> NoDesktop,
     Path |-> <<"/", "o", "/", "a", ".", "A", "p", "p", "I", "m", "a", "g", "e">>,
     md5 |-> BundleMd5,
     dataDir |-> "/o/a.AppImage.home",
     rootDir |-> "/",
     tempDir |-> "/tmp/appimage-" \o BundleMd5,
     mountDir |-> mountDir,
     Offset |-> 0]

\* the environment variables parseSockets reads
WrapEnvs ==
    [PREFER_CHAINS_PROFILE : {FALSE},
     WAYLAND_DISPLAY : {<<>>, <<"wayland-1">>},
     XAUTHORITY : {<<>>},
     DISPLAY : {<<":", "0">>},
     TMPDIR : {<<>>}]

InitWrap ==
    /\ \E level \in 0..3, f \in WrapFiles, dv \in WrapDevices, s \in WrapSockets,
          dd \in BOOLEAN :
          p = [EmptyPerms EXCEPT !.Level = level, !.Files = f, !.Devices = dv,
                                 !.Sockets = s, !.DataDir = dd]
    /\ op = ""
    /\ arg = <<>>
    /\ pre = EmptyPerms
    /\ ret = "nil"
    /\ panicked = FALSE
    /\ \E m \in {"", RuntimeDir \o "/aisap/mount/" \o BundleMd5} : ai = WrapHandle(m)
    /\ \E u \in {{}, {"/usr/share/X11"}} :
          fs = [chains |-> [n \in BundleNames |-> NoFile],
                aisap |-> [n \in BundleNames |-> FALSE],
                bundle |-> NoFile, unresolved |-> u]
    /\ env \in WrapEnvs
    /\ RawProfiles = <<>>
    /\ proc = NoProcess

\* ai.SetRootDir(d), on the handle as constructed
CallSetRootDir ==
    \E d \in RootDirs :
        /\ op = ""
        /\ ai.rootDir # d
        /\ op' = "SetRootDir"
        /\ arg' = d
        /\ ret' = "nil"
        /\ ai' = [ai EXCEPT !.rootDir = d]
        /\ UNCHANGED <<p, pre, panicked, fs, env, RawProfiles, proc>>

\* ai.WrapArgs(perms, args), once in a run (Sandbox compiles the policy once)
CallWrapArgs ==
    /\ op # "WrapArgs"
    /\ \E args \in CallerArgs, so \in SocketOrders, do \in DeviceOrders :
          \E r \in {WrapArgs(ai, fs, env, p, args, so, do)} :
              /\ op' = "WrapArgs"
              /\ arg' = [args |-> args, socketOrder |-> so, deviceOrder |-> do]
              /\ ret' = r
              /\ UNCHANGED <<p, pre, panicked, host>>

NextWrap == CallSetRootDir \/ CallWrapArgs

SpecWrap == InitWrap /\ [][NextWrap]_vars

----------------------------------------------------------------------------
(* Mounting: Mount and Destroy on a handle *)

\* outcomes the host decides when mounting
MountOutcomes ==
    [mkdirTemp : BOOLEAN, mkdirMount : BOOLEAN, squashfuse : BOOLEAN,
     run : BOOLEAN]

\* outcomes the host decides when unmounting
DestroyOutcomes == [umount : BOOLEAN, removeAll : BOOLEAN]

\* the directory Mount() mounts the bundle of the model on
MountPath == RuntimeDir \o "/aisap/mount/" \o BundleMd5

\* destinations a caller gives Mount
MountTargets == {"/mnt/a", "/mnt/b"}

\* temporary directories a caller gives the handle (SetTempDir)
TempDirs == {"/tmp/appimage-" \o BundleMd5, "/var/tmp/a"}

\* a host where each destination is a directory or is none, and where an
\* earlier instance of the bundle may have left the image mounted
InitMount ==
    /\ p = EmptyPerms
    /\ op = ""
    /\ arg = <<>>
    /\ pre = EmptyPerms
    /\ ret = "nil"
    /\ panicked = FALSE
    /\ ai = WrapHandle("")
    /\ \E m \in {{}, {MountPath}}, ds \in SUBSET MountTargets :
          fs = [chains |-> [n \in BundleNames |-> NoFile],
                aisap |-> [n \in BundleNames |-> FALSE],
                bundle |-> NoFile, unresolved |-> {},
                dirs |-> ds \cup m, mounts |-> m]
    /\ env = [PREFER_CHAINS_PROFILE |-> FALSE]
    /\ RawProfiles = <<>>
    /\ proc = NoProcess

\* ai.SetTempDir(d)
CallSetTempDir ==
    \E d \in TempDirs :
        /\ ai.tempDir # d
        /\ op' = "SetTempDir"
        /\ arg' = <<d>>
        /\ ret' = "nil"
        /\ ai' = [ai EXCEPT !.tempDir = d]
        /\ UNCHANGED <<p, pre, panicked, fs, env, RawProfiles, proc>>

\* ai.Mount()
CallMount ==
    \E sys \in MountOutcomes :
        \E r \in {Mount(ai, fs, sys)} :
            /\ op' = "Mount"
            /\ arg' = <<>>
            /\ ret' = r.err
            /\ ai' = r.ai
            /\ fs' = r.fs
            /\ UNCHANGED <<p, pre, panicked, env, RawProfiles, proc>>

\* ai.Mount(dest)
CallMountAt ==
    \E dest \in MountTargets, sys \in MountOutcomes :
        \E r \in {MountAt(ai, fs, dest, sys)} :
            /\ op' = "Mount"
            /\ arg' = <<dest>>
            /\ ret' = r.err
            /\ ai' = r.ai
            /\ fs' = r.fs
            /\ UNCHANGED <<p, pre, panicked, env, RawProfiles, proc>>

\* ai.Destroy()
CallDestroy ==
    \E sys \in DestroyOutcomes :
        \E r \in {Destroy(ai, fs, sys)} :
            /\ op' = "Destroy"
            /\ arg' = <<>>
            /\ ret' = r.err
            /\ ai' = r.ai
            /\ fs' = r.fs
            /\ UNCHANGED <<p, pre, panicked, env, RawProfiles, proc>>

NextMount == CallSetTempDir \/ CallMount \/ CallMountAt \/ CallDestroy

SpecMount == InitMount /\ [][NextMount]_vars

----------------------------------------------------------------------------
(* The command line: main from NewAppImage to the exit of the process *)

\* the values of the --level flag: not given, and 0 and 2
LevelFlags == {-1, 0, 2}

\* the values of the --trust flag
TrustFlags == {"unset", "true", "false"}

\* outcomes the host decides in Sandbox
SandboxOutcomes == [mkdirCache : BOOLEAN, mkdirData : BOOLEAN, bwrap : BOOLEAN]

\* the process before main has opened the bundle: the package-level handle
\* (global) is nil, and the signal listener started by setupSignalHandler
\* waits for a signal (umounts: the directories the listener has run
\* fusermount -u on)
StartedProcess(trust, trustOnce, level) ==
    [pc |-> "NewAppImage", trust |-> trust, trustOnce |-> trustOnce,
     level |-> level, gate |-> "none", enforcer |-> <<>>, destroyed |-> FALSE,
     exit |-> -1, global |-> "nil", listener |-> "waiting", umounts |-> {}]

\* a host that may hold a persisted profile and an aisap profile of the
\* bundle, and the bundle file with or without the marker bit, or no bundle
InitLaunch ==
    /\ p = EmptyPerms
    /\ op = ""
    /\ arg = <<>>
    /\ pre = EmptyPerms
    /\ ret = "nil"
    /\ panicked = FALSE
    /\ \E d \in DesktopEntries :
          ai = [WrapHandle("") EXCEPT !.Desktop = d]
    /\ \E c \in {NoFile, <<PersistedText>>}, a \in BOOLEAN,
          b \in {NoFile} \cup {<<m>> : m \in BundleModes} :
          fs = [chains |-> [n \in BundleNames |-> IF n = ai.Name THEN c ELSE NoFile],
                aisap |-> [n \in BundleNames |-> n = ai.Name /\ a],
                bundle |-> b, profilesDir |-> c # NoFile, unresolved |-> {},
                dirs |-> {}, mounts |-> {}]
    /\ env = [PREFER_CHAINS_PROFILE |-> FALSE, WAYLAND_DISPLAY |-> <<"wayland-1">>,
              XAUTHORITY |-> <<>>, DISPLAY |-> <<":", "0">>, TMPDIR |-> <<>>]
    /\ RawProfiles = <<>>
    /\ \E t \in TrustFlags, o \in BOOLEAN, l \in LevelFlags :
          proc = StartedProcess(t, o, l)

\* fatal: the message is printed and the process exits with status 1 (the
\* deferred Destroy does not run)
Fatal(err) ==
    /\ ret' = err
    /\ proc' = [proc EXCEPT !.pc = "exited", !.exit = 1]

\* main: NewAppImage; fatal when the bundle file is not found
StepNewAppImage ==
    /\ proc.pc = "NewAppImage"
    /\ op' = "NewAppImage"
    /\ arg' = <<>>
    /\ IF fs.bundle = NoFile
       THEN Fatal("file not found")
       ELSE /\ ret' = "nil"
            /\ proc' = [proc EXCEPT !.pc = "setPermissions"]
    /\ UNCHANGED <<p, pre, panicked, fs, env, RawProfiles, ai>>

\* main: setPermissions; fatal on its error
StepSetPermissions ==
    /\ proc.pc = "setPermissions"
    /\ \E r \in {setPermissions(ai, fs.chains, RawProfiles,
                                 env.PREFER_CHAINS_PROFILE, proc.level)} :
          /\ op' = "setPermissions"
          /\ arg' = <<>>
          /\ panicked' = r.panic
          /\ IF r.panic
             THEN /\ ret' = "panic"
                  /\ proc' = [proc EXCEPT !.pc = "exited", !.exit = 2]
                  /\ p' = p
             ELSE IF r.err # "nil"
             THEN Fatal(r.err) /\ p' = p
             ELSE /\ ret' = "nil"
                  /\ proc' = [proc EXCEPT !.pc = "mountAppImage"]
                  /\ p' = r.perms
    /\ UNCHANGED <<pre, fs, env, RawProfiles, ai>>

\* main: mountAppImage; fatal on its error
StepMountAppImage ==
    /\ proc.pc = "mountAppImage"
    /\ \E sys \in MountOutcomes :
          \E r \in {Mount(ai, fs, sys)} :
              /\ op' = "mountAppImage"
              /\ arg' = <<>>
              /\ ai' = r.ai
              /\ fs' = r.fs
              /\ IF r.err # "nil"
                 THEN Fatal(r.err)
                 ELSE /\ ret' = "nil"
                      /\ proc' = [proc EXCEPT !.pc = "configureAppImage"]
    /\ UNCHANGED <<p, pre, panicked, env, RawProfiles>>

\* main: configureAppImage; fatal on its error
StepConfigureAppImage ==
    /\ proc.pc = "configureAppImage"
    /\ \E sys \in SysOutcomes :
          \E r \in {configureAppImage(ai, fs, proc.trust, proc.trustOnce, sys)} :
              /\ op' = "configureAppImage"
              /\ arg' = <<>>
              /\ fs' = r.fs
              /\ ret' = r.err
              /\ proc' = IF r.err # "nil"
                         THEN [proc EXCEPT !.pc = "exited", !.exit = 1,
                                           !.gate = IF r.trusted THEN "trusted"
                                                    ELSE "untrusted"]
                         ELSE [proc EXCEPT !.pc = "Sandbox",
                                           !.gate = IF r.trusted THEN "trusted"
                                                    ELSE "untrusted"]
    /\ UNCHANGED <<p, pre, panicked, env, RawProfiles, ai>>

\* main: ai.Sandbox, then the return of main, on which the deferred Destroy
\* runs and the process exits with status 0
StepSandbox ==
    /\ proc.pc = "Sandbox"
    /\ \E sys \in SandboxOutcomes, so \in SocketOrders, do \in DeviceOrders,
          down \in DestroyOutcomes :
          \E r \in {Sandbox(ai, fs, env, p, <<>>, so, do, sys)},
             e \in {Destroy(ai, fs, down)} :
              /\ op' = "Sandbox"
              /\ arg' = [args |-> <<>>, socketOrder |-> so, deviceOrder |-> do]
              /\ ret' = r.err
              /\ ai' = e.ai
              /\ fs' = e.fs
              /\ proc' = [proc EXCEPT !.pc = "exited", !.exit = 0,
                                      !.enforcer = r.ran, !.destroyed = TRUE]
    /\ UNCHANGED <<p, pre, panicked, env, RawProfiles>>

\* the goroutine of setupSignalHandler: an interrupt or termination signal
\* arrives while the process runs, and the listener unmounts with fusermount
\* the handle the package-level variable holds, if it holds one.  main
\* declares its handle with := as a local variable, so no step assigns the
\* package-level one.  The signal is taken by the channel, so the process
\* goes on.
StepSignal ==
    /\ proc.pc # "exited"
    /\ proc.listener = "waiting"
    /\ IF proc.global = "nil"
       THEN /\ proc' = [proc EXCEPT !.listener = "done"]
            /\ fs' = fs
       ELSE \E ok \in BOOLEAN :
               /\ proc' = [proc EXCEPT !.listener = "done",
                                       !.umounts = @ \cup {ai.mountDir}]
               /\ fs' = IF ok THEN [fs EXCEPT !.mounts = @ \ {ai.mountDir}]
                               ELSE fs
    /\ UNCHANGED <<p, op, arg, pre, ret, panicked, env, RawProfiles, ai>>

NextLaunch ==
    \/ StepSignal
    \/ StepNewAppImage
    \/ StepSetPermissions
    \/ StepMountAppImage
    \/ StepConfigureAppImage
    \/ StepSandbox

SpecLaunch == InitLaunch /\ [][NextLaunch]_vars

----------------------------------------------------------------------------
(* Detection and opening: GetAppImageType, GetOffset, NewAppImage and Mount  *)
(* on one bundle file                                                        *)

\* section-header offsets, counts and entry sizes an ELF header declares
ElfShoffs == {0, 64, 4096}
ElfShnums == {0, 1, 30}
ElfShentsizes == {0, 40, 64}

\* ELF bundles: of type 1, of type 2 and without marker
ElfFiles ==
    [magic : {"elf"}, marker : {0, 1, 2}, parses : BOOLEAN, class : {32, 64},
     shoff : ElfShoffs, shnum : ElfShnums, shentsize : ElfShentsizes,
     sfs : {NoFile}]

\* shell-script bundles: without sfs_offset line, and with a plain, a quoted
\* and a hexadecimal value
ShFiles ==
    [magic : {"shImg"}, marker : {0}, parses : {FALSE}, class : {0},
     shoff : {0}, shnum : {0}, shentsize : {0},
     sfs : {NoFile, <<<<"1", "0", "2", "4">>>>, <<<<"'", "2", "0", "4", "8", "'">>>>,
            <<<<"0", "x", "4", "0", "0">>>>}]

\* the files at the path of the bundle: none, a bundle, or some other file
BundleFiles ==
    {NoFile} \cup ElfFiles \cup ShFiles
    \cup [magic : {"other"}, marker : {0}, parses : {FALSE}, class : {0},
          shoff : {0}, shnum : {0}, shentsize : {0}, sfs : {NoFile}]

\* outcomes of the go-appimage library and of loading the desktop entry
LibOutcomes == [open : BOOLEAN, desktop : BOOLEAN]

\* NewAppImage: an error without the file, on the error of
\* goappimage.NewAppImage and on that of ini.LoadSources; else the handle,
\* whose Offset no statement assigns
NewAppImage(files, lib) ==
    IF files.bundle = NoFile THEN [ai |-> NoHandle, err |-> "file not found"]
    ELSE IF ~lib.open THEN [ai |-> NoHandle, err |-> "goappimage failed"]
    ELSE IF ~lib.desktop THEN [ai |-> NoHandle, err |-> "desktop entry failed"]
    ELSE [ai |-> WrapHandle(""), err |-> "nil"]

\* the command line mount runs
mountCommand(src, dest, offset) ==
    <<"squashfuse", "-o", <<"o", "f", "f", "s", "e", "t", "=">> \o Itoa(offset),
      src, dest>>

InitOffset ==
    /\ p = EmptyPerms
    /\ op = ""
    /\ arg = <<>>
    /\ pre = EmptyPerms
    /\ ret = "nil"
    /\ panicked = FALSE
    /\ \E f \in BundleFiles :
          fs = [bundle |-> f, dirs |-> {}, mounts |-> {}, unresolved |-> {}]
    /\ env = [PREFER_CHAINS_PROFILE |-> FALSE]
    /\ RawProfiles = <<>>
    /\ ai = NoHandle
    /\ proc = NoProcess

CallGetAppImageType ==
    /\ op' = "GetAppImageType"
    /\ arg' = <<>>
    /\ ret' = GetAppImageType(fs.bundle)
    /\ UNCHANGED <<p, pre, panicked, host>>

CallGetOffset ==
    /\ op' = "GetOffset"
    /\ arg' = <<>>
    /\ ret' = GetOffset(fs.bundle)
    /\ UNCHANGED <<p, pre, panicked, host>>

\* chains.NewAppImage(path)
CallNewAppImage ==
    /\ ai = NoHandle
    /\ \E lib \in LibOutcomes :
          \E r \in {NewAppImage(fs, lib)} :
              /\ op' = "NewAppImage"
              /\ arg' = <<>>
              /\ ret' = r.err
              /\ ai' = r.ai
    /\ UNCHANGED <<p, pre, panicked, fs, env, RawProfiles, proc>>

\* ai.Mount() on the handle NewAppImage returned; arg holds the command line
\* of the mount helper when Mount has run it with success
CallMountImage ==
    /\ ai # NoHandle
    /\ ~IsMounted(ai)
    /\ \E sys \in MountOutcomes :
          \E r \in {Mount(ai, fs, sys)} :
              /\ op' = "Mount"
              /\ arg' = IF r.err = "nil" /\ r.fs.mounts # fs.mounts
                        THEN mountCommand(r.ai.Path, r.ai.mountDir, ai.Offset)
                        ELSE <<>>
              /\ ret' = r.err
              /\ ai' = r.ai
              /\ fs' = r.fs
    /\ UNCHANGED <<p, pre, panicked, env, RawProfiles, proc>>

NextOffset ==
    \/ CallGetAppImageType
    \/ CallGetOffset
    \/ CallNewAppImage
    \/ CallMountImage

SpecOffset == InitOffset /\ [][NextOffset]_vars

----------------------------------------------------------------------------
(* Two processes that launch the bundle at one path: each holds its own      *)
(* handle (ai[1], ai[2]); the md5 of the path keys the temporary and the     *)
(* mount directory, so both handles name the same directories of the host    *)

\* the processes
Launchers == {1, 2}

InitShared ==
    /\ p = EmptyPerms
    /\ op = ""
    /\ arg = <<>>
    /\ pre = EmptyPerms
    /\ ret = "nil"
    /\ panicked = FALSE
    /\ fs = [dirs |-> {}, mounts |-> {}, unresolved |-> {}]
    /\ env = [PREFER_CHAINS_PROFILE |-> FALSE]
    /\ RawProfiles = <<>>
    /\ ai = [i \in Launchers |-> WrapHandle("")]
    /\ proc = NoProcess

\* ai.Mount() in the process i
LauncherMount(i) ==
    \E sys \in MountOutcomes :
        \E r \in {Mount(ai[i], fs, sys)} :
            /\ op' = "Mount"
            /\ arg' = i
            /\ ret' = r.err
            /\ ai' = [ai EXCEPT ![i] = r.ai]
            /\ fs' = r.fs
            /\ UNCHANGED <<p, pre, panicked, env, RawProfiles, proc>>

\* ai.Destroy() in the process i
LauncherDestroy(i) ==
    \E sys \in DestroyOutcomes :
        \E r \in {Destroy(ai[i], fs, sys)} :
            /\ op' = "Destroy"
            /\ arg' = i
            /\ ret' = r.err
            /\ ai' = [ai EXCEPT ![i] = r.ai]
            /\ fs' = r.fs
            /\ UNCHANGED <<p, pre, panicked, env, RawProfiles, proc>>

NextShared ==
    \E i \in Launchers : LauncherMount(i) \/ LauncherDestroy(i)

SpecShared == InitShared /\ [][NextShared]_vars

----------------------------------------------------------------------------
(* Claims on the permission model *)

\* a stored file grant without its three-character mode suffix
PathOf(entry) == SubSeq(entry, 1, Len(entry) - 3)

\* the grants of files whose path is that of the argument q
GrantsFor(files, q) ==
    SelectSeq(files, LAMBDA e : PathOf(e) = PathOf(CleanFile(q)))

\* the paths q for which both q:rw and q:ro are arguments a caller passes
BothModePaths ==
    {q \in {PathOf(a) : a \in FileArgs} :
        /\ q \o <<":", "r", "w">> \in FileArgs
        /\ q \o <<":", "r", "o">> \in FileArgs}

\* C1: for any permission model and any path q, AddFiles(q:rw) followed by
\* AddFiles(q:ro) leaves exactly one file grant for q, and its mode is ro.
C1_AddRwThenRoLeavesOneRo ==
    [][\A q \in BothModePaths :
          (/\ op = "AddFiles" /\ arg = <<q \o <<":", "r", "w">>>>
           /\ op' = "AddFiles" /\ arg' = <<q \o <<":", "r", "o">>>>)
          => GrantsFor(p'.Files, q) = <<CleanFile(q \o <<":", "r", "o">>)>>]_vars

\* C2: in every state reached by AddFiles and RemoveFiles calls, no two entries
\* of Files have the same path once the :ro/:rw suffix is stripped.
C2_FilesOnePerPath ==
    \A i, j \in 1..Len(p.Files) :
        i # j => PathOf(p.Files[i]) # PathOf(p.Files[j])

\* C3: in every state reached by AddDevices and RemoveDevices calls, Devices
\* holds no duplicate entry and no entry that begins with "/dev/".
C3_DevicesCanonicalSet ==
    /\ \A i, j \in 1..Len(p.Devices) : i # j => p.Devices[i] # p.Devices[j]
    /\ \A i \in 1..Len(p.Devices) :
          ~MatchAt(p.Devices[i], <<"/", "d", "e", "v", "/">>, 1)

\* the 1-based position of the first token of a batch outside the enumeration
FirstInvalid(s) ==
    CHOOSE i \in 1..Len(s) :
        s[i] \notin SocketMap /\ \A j \in 1..(i - 1) : s[j] \in SocketMap

\* the number of entries of s equal to x
Count(s, x) == Cardinality({i \in 1..Len(s) : s[i] = x})

\* C4: AddSockets with a batch holding a token outside the enumeration returns
\* InvalidSocket, having stopped at the first invalid token: Sockets ends with
\* the valid tokens that preceded it, and a token that only follows it is not
\* added (Sockets holds it no more often than before the call).
C4_AddSocketsStopsAtFirstInvalid ==
    (op = "AddSockets" /\ \E i \in 1..Len(arg) : arg[i] \notin SocketMap)
    => LET k == FirstInvalid(arg)
           before == SubSeq(arg, 1, k - 1)
           n == Len(p.Sockets)
       IN  /\ ret = "InvalidSocket"
           /\ ~panicked
           /\ n >= k - 1
           /\ SubSeq(p.Sockets, n - (k - 1) + 1, n) = before
           /\ \A j \in (k + 1)..Len(arg) :
                 (\A i \in 1..(k - 1) : arg[i] # arg[j])
                 => Count(p.Sockets, arg[j]) <= Count(pre.Sockets, arg[j])

\* C30: in every state reached by AddSockets and RemoveSockets calls (batches
\* naming a socket twice included), RemoveSockets returns without a runtime
\* panic and afterwards none of the sockets it was given occurs in Sockets.
C30_RemoveSocketsRemoves ==
    op = "RemoveSockets"
    => /\ ~panicked
       /\ \A i \in 1..Len(arg) : \A k \in 1..Len(p.Sockets) : p.Sockets[k] # arg[i]

----------------------------------------------------------------------------
(* Claims on profile text *)

\* the profile text the last constructor call read, as written at its source
SourceText ==
    IF op = "FromSystem" THEN fs.chains[arg][1] ELSE arg

\* the last call was a constructor that had a text to read
ReadText ==
    /\ op \in {"FromIni", "FromReader", "FromSystem"}
    /\ op = "FromSystem" => fs.chains[arg] # NoFile
    /\ op # "FromIni" => SourceText.ok

\* C5: building a model from profile text whose Sockets list holds a token
\* outside the enumeration yields an error.
C5_UnknownSocketTokenIsError ==
    (/\ ReadText
     /\ \E tokens \in {FieldsFunc(SourceText.Sockets, ";")} :
           \E i \in 1..Len(tokens) : tokens[i] \notin SocketMap)
    => ret.err # "nil"

\* C6: FromIni returns level -1 with a non-nil error whenever Level is
\* unparsable or an integer outside 0..3, and a nil error only with a level
\* in 0..3.
C6_FromIniBadLevelIsError ==
    op = "FromIni"
    => /\ (Atoi(arg.Level).err # "nil" \/ Atoi(arg.Level).n \notin 0..3)
          => (ret.perms.Level = 0 - 1 /\ ret.err # "nil")
       /\ ret.err = "nil" => ret.perms.Level \in 0..3

\* C7: a list value read through FromReader or FromSystem yields the items of
\* the original value split at ";": the lists of the model built are those
\* the items of the source text give.
C7_SemicolonRoundTrip ==
    (/\ ReadText
     /\ op \in {"FromReader", "FromSystem"}
     /\ ret.err = "nil"
     /\ ret.perms.Level \in 0..3)
    => /\ ret.perms.Sockets = AddSockets(<<>>, FieldsFunc(SourceText.Sockets, ";")).s
       /\ ret.perms.Devices = AddDevices(<<>>, FieldsFunc(SourceText.Devices, ";"))
       /\ ret.perms.Files = AddFiles(<<>>, FieldsFunc(SourceText.Files, ";"))

----------------------------------------------------------------------------
(* Claims on resolution, the catalog and trust *)

\* C8: GetPermissions returns the model of the first source that succeeds,
\* the order being persisted profile, catalog, desktop entry, or catalog,
\* persisted profile, desktop entry when PREFER_CHAINS_PROFILE is set; the
\* errors of the first two sources are swallowed and the desktop entry's
\* result and error are returned when both fail.
C8_FirstSuccessfulSourceWins ==
    op = "GetPermissions"
    => \E persisted \in {FromSystem(fs.chains, ai.Name)},
          catalog \in {FromName(RawProfiles, ai.Name)},
          embedded \in {FromIni(ai.Desktop)} :
          LET order == IF env.PREFER_CHAINS_PROFILE THEN <<catalog, persisted>>
                       ELSE <<persisted, catalog>>
              succeeded == {i \in 1..2 : order[i].err = "nil"}
          IN  IF succeeded # {}
              THEN LET i == CHOOSE i \in succeeded : \A j \in succeeded : i <= j
                   IN  ret = [perms |-> order[i].perms, err |-> "nil"]
              ELSE ret = [perms |-> embedded.perms, err |-> embedded.err]

\* C8 witness: the variable is set, the catalog has no entry for the bundle
\* and the persisted profile is returned
C8_Witness ==
    /\ op = "GetPermissions"
    /\ env.PREFER_CHAINS_PROFILE
    /\ FromName(RawProfiles, ai.Name).err # "nil"
    /\ \E persisted \in {FromSystem(fs.chains, ai.Name)} :
          persisted.err = "nil" /\ ret = [perms |-> persisted.perms, err |-> "nil"]

\* the entries of the catalog that list a case variant of name
ListingFolded(name) ==
    {k \in 1..Len(RawProfiles) :
        \E j \in 1..Len(RawProfiles[k].Names) :
            ToLower(RawProfiles[k].Names[j]) = ToLower(name)}

\* C9: FromName is keyed by case-folded name: a lookup of any case variant of
\* an alias some entry lists returns the last entry listing that alias, and a
\* lookup of a name that is no alias returns level -1 and an error.
C9_FromNameCaseFolded ==
    op = "FromName"
    => IF ListingFolded(arg) # {}
       THEN LET k == CHOOSE k \in ListingFolded(arg) :
                        \A l \in ListingFolded(arg) : l <= k
            IN  /\ ret.err = "nil"
                /\ ret.perms.Names = RawProfiles[k].Names
                /\ ret.perms.Level = RawProfiles[k].Level
       ELSE ret.perms.Level = 0 - 1 /\ ret.err # "nil"

\* the modes of BundleModes that include bit 0100: 0744 and 0100
ModesWithMarker == {484, 64}

\* C10: the trust predicate is true iff the protected profile file of the
\* bundle name exists and the bundle file's mode includes bit 0100 (IsTrusted
\* reads the chains profile directory, Trusted the aisap one), and it depends
\* on nothing else.
C10_TrustIsProfileAndMarker ==
    /\ op = "IsTrusted"
       => (ret <=> (/\ fs.chains[arg] # NoFile
                    /\ fs.bundle \in {<<m>> : m \in ModesWithMarker}))
    /\ op = "Trusted"
       => (ret <=> (/\ fs.aisap[arg]
                    /\ fs.bundle \in {<<m>> : m \in ModesWithMarker}))

\* C10 witness: IsTrusted has answered true
C10_Witness == op = "IsTrusted" /\ ret = TRUE

\* C29: whenever GetPermissions returns a nil error the level of the model
\* it returns is in 0..3 (a source whose Level is an integer out of range is
\* no success).
C29_ResolvedLevelInRange ==
    (op = "GetPermissions" /\ ~panicked /\ ret.err = "nil")
    => ret.perms.Level \in 0..3

----------------------------------------------------------------------------
(* Claims on the trust store *)

\* the step is a call that enables trust for a name
EnablesTrust ==
    /\ op' \in {"ai.SetTrusted", "SetTrusted"}
    /\ arg'.trusted

\* C11: after enabling trust succeeds for a bundle that had no protected
\* profile, the marker bit is set on the bundle file and the protected
\* profile exists, so the trust predicate for that name and path is true and
\* the trust gate (ai.Trusted, for the handle of that name) passes.
C11_EnablingTrustMakesTrusted ==
    [][(/\ EnablesTrust
        /\ ret' = "nil"
        /\ fs.chains[arg'.name] = NoFile)
       => /\ fs'.bundle # NoFile
          /\ HasMarkerBit(fs'.bundle[1])
          /\ fs'.chains[arg'.name] # NoFile
          /\ IsTrusted(fs', arg'.name)
          /\ arg'.name = ai'.Name => Trusted(fs', ai')]_vars

\* C12: enabling trust for a name whose protected profile already exists
\* returns an error and changes nothing: the profile file and the bundle
\* file's mode are as before the call.
C12_EnablingTwiceChangesNothing ==
    [][(/\ EnablesTrust
        /\ fs.chains[arg'.name] # NoFile)
       => /\ ret' # "nil"
          /\ fs'.chains = fs.chains
          /\ fs'.bundle = fs.bundle]_vars

----------------------------------------------------------------------------
(* Claims on the policy compiler *)

\* WrapArgs has returned for a mounted handle
Compiled == op = "WrapArgs" /\ IsMounted(ai)

\* C14: for a mounted handle and a permission model of level 0, WrapArgs
\* returns exactly the caller's arguments, with no error and no directive of
\* its own.
C14_LevelZeroReturnsCallerArgs ==
    (Compiled /\ p.Level = 0) => (ret.err = "nil" /\ ret.cmdArgs = arg.args)

\* WrapArgs returned a caller's several arguments at level 0, for a model
\* that grants files, devices and sockets
C14_Witness ==
    /\ Compiled
    /\ p.Level = 0
    /\ Len(p.Files) > 0 /\ Len(p.Devices) > 0 /\ Len(p.Sockets) > 0
    /\ Len(arg.args) > 1
    /\ ret.cmdArgs = arg.args

\* C15: for a mounted handle and a level in 1..3 the list WrapArgs returns
\* is, in this order: the bind of the temporary directory on /tmp, the bind
\* of the mount directory on the application directory, the home (a bind of
\* the data directory when DataDir is set, else a tmpfs), the baseline, the
\* tier of the level, the file grants, the socket grants, the device grants,
\* "--", the AppRun of the application directory, and the caller's arguments.
C15_DirectiveOrder ==
    (Compiled /\ p.Level \in 1..3) =>
        /\ ret.err = "nil"
        /\ ret.cmdArgs =
              <<"--bind", ai.tempDir, "/tmp">>
              \o <<"--bind", ai.mountDir, "/tmp/.mount_" \o ai.md5>>
              \o (IF p.DataDir THEN <<"--bind", ai.dataDir, Str(RealHome)>>
                               ELSE <<"--tmpfs", Str(RealHome)>>)
              \o baseArgs(ai, fs)
              \o tierArgs(ai, fs, p.Level)
              \o parseFiles(p)
              \o parseSockets(ai, fs, env, p, arg.socketOrder)
              \o parseDevices(ai, fs, p, arg.deviceOrder)
              \o <<"--", "/tmp/.mount_" \o ai.md5 \o "/AppRun">>
              \o arg.args

\* WrapArgs compiled a level 2 model with a data directory and grants of
\* every kind, each of which put directives in the list
C15_Witness ==
    /\ Compiled
    /\ p.Level = 2
    /\ p.DataDir
    /\ Len(parseFiles(p)) > 0
    /\ Len(p.Sockets) > 0
    /\ Len(p.Devices) > 0
    /\ Len(arg.args) > 0
    /\ Len(ret.cmdArgs) > Len(baseArgs(ai, fs)) + Len(arg.args)

\* the sockets the permission model grants
GrantedSockets == {Str(p.Sockets[i]) : i \in 1..Len(p.Sockets)}

\* the number of operands a directive of the sandbox helper takes
Arity(flag) ==
    IF flag \in {"--bind", "--bind-try", "--ro-bind", "--ro-bind-try",
                 "--dev-bind", "--dev-bind-try", "--setenv"} THEN 2
    ELSE IF flag \in {"--tmpfs", "--dir", "--dev", "--proc", "--perms"} THEN 1
    ELSE 0

RECURSIVE Reach(_, _, _, _)
\* the positions reached from the positions from by following jump any
\* number of times (jump, a sequence of positions, is followed span times at
\* once, and span doubles until it exceeds n)
Reach(jump, from, span, n) ==
    IF span > n THEN from
    ELSE Reach(SubSeq([i \in 1..Len(jump) |-> jump[jump[i]]], 1, Len(jump)),
               from \cup {jump[i] : i \in from}, 2 * span, n)

\* the positions of an argument list where a directive starts: the first,
\* and the one past the operands of each directive, up to the "--" that ends
\* the directives (the entry point and the caller's arguments follow)
DirectiveStarts(list) ==
    LET n == Len(list)
        next(i) == IF i > n THEN i
                   ELSE IF list[i] = "--" THEN i
                   ELSE IF i + Arity(list[i]) + 1 > n THEN n + 1
                   ELSE i + Arity(list[i]) + 1
        live(reached) == {i \in reached : i <= n /\ list[i] # "--"}
    IN  live(Reach(SubSeq([i \in 1..(n + 1) |-> next(i)], 1, n + 1), {1}, 1, n))

\* the directive at a position: the flag with its operands
DirectiveAt(list, i) == SubSeq(list, i, i + Arity(list[i]))

\* the flags that expose a part of the host filesystem: bind, read-only
\* bind, device bind
ExposureFlags == {"--bind", "--bind-try", "--ro-bind", "--ro-bind-try",
                  "--dev-bind", "--dev-bind-try"}

\* the filesystem-exposure directives of an argument list
Exposures(list) ==
    {DirectiveAt(list, i) : i \in {k \in DirectiveStarts(list) : list[k] \in ExposureFlags}}

\* the filesystem-exposure directives WrapArgs compiles for the model at
\* another level, everything else being as in the call that returned
ExposuresAt(level) ==
    Exposures(WrapArgs(ai, fs, env, [p EXCEPT !.Level = level], arg.args,
                       arg.socketOrder, arg.deviceOrder).cmdArgs)

\* C16 (as stated): for two levels L1 < L2 in 1..3 and otherwise identical
\* grants, handle and environment, every filesystem-exposure directive of
\* the level-L1 list also occurs in the level-L2 list.
C16_HigherLevelExposesMore ==
    (Compiled /\ p.Level \in 1..2) =>
        \E low \in {Exposures(ret.cmdArgs)} :
            \A L2 \in (p.Level + 1)..3 : low \subseteq ExposuresAt(L2)

\* C16 (amended): for a level L in 1..2 and otherwise identical grants,
\* handle and environment, every filesystem-exposure directive of the
\* level-3 list also occurs in the level-L list, except, for L = 1, the file
\* binds of a granted network socket.
C16_LevelThreeExposesLeast ==
    (Compiled /\ p.Level = 3) =>
        \E least \in {Exposures(ret.cmdArgs)},
           net \in {Exposures(sockets(ai, fs, env, "network"))} :
            \A L \in 1..2 :
                \E other \in {ExposuresAt(L)} :
                    \A d \in least :
                        \/ d \in other
                        \/ L = 1 /\ "network" \in GrantedSockets /\ d \in net

\* WrapArgs compiled a level 3 model that grants files, devices and sockets,
\* network among them, and the list exposes parts of the host
C16_Witness ==
    /\ Compiled
    /\ p.Level = 3
    /\ Len(p.Files) > 0 /\ Len(p.Devices) > 0
    /\ "network" \in GrantedSockets
    /\ Exposures(sockets(ai, fs, env, "network")) \subseteq Exposures(ret.cmdArgs)
    /\ Exposures(parseFiles(p)) # {}
    /\ Exposures(parseFiles(p)) \subseteq Exposures(ret.cmdArgs)

\* the directives of an argument list
AllDirectives(list) == {DirectiveAt(list, i) : i \in DirectiveStarts(list)}

\* the arguments sub occur in the list, from the start of a directive on
Occurs(sub, list) ==
    \E i \in DirectiveStarts(list) :
        /\ i + Len(sub) - 1 <= Len(list)
        /\ SubSeq(list, i, i + Len(sub) - 1) = sub

\* the model grants wayland and x11 and the host has WAYLAND_DISPLAY set
BothUnderWayland ==
    /\ "wayland" \in GrantedSockets
    /\ "x11" \in GrantedSockets
    /\ Len(env.WAYLAND_DISPLAY) > 0

\* the model grants x11, and it does not grant wayland or the host has no
\* WAYLAND_DISPLAY
X11Alone ==
    /\ "x11" \in GrantedSockets
    /\ ~("wayland" \in GrantedSockets /\ Len(env.WAYLAND_DISPLAY) > 0)

\* C17 (as stated): when the model grants wayland and x11 and the host has
\* WAYLAND_DISPLAY set, the compiled list contains the Wayland bundle and
\* none of the directives of the X11 bundle; when wayland is not granted or
\* the host has no Wayland display, a granted x11 emits the X11 bundle.
C17_WaylandSuppressesX11 ==
    (Compiled /\ p.Level \in 1..3) =>
        \E all \in {AllDirectives(ret.cmdArgs)} :
            /\ BothUnderWayland =>
                  /\ Occurs(sockets(ai, fs, env, "wayland"), ret.cmdArgs)
                  /\ AllDirectives(sockets(ai, fs, env, "x11")) \cap all = {}
            /\ X11Alone => Occurs(sockets(ai, fs, env, "x11"), ret.cmdArgs)

\* C17 (amended): when the model grants wayland and x11 and the host has
\* WAYLAND_DISPLAY set, the socket grants of the compiled list contain the
\* Wayland bundle and none of the directives of the X11 bundle other than
\* those the Wayland bundle also holds; when wayland is not granted or the
\* host has no Wayland display, a granted x11 emits the X11 bundle.
C17_WaylandSuppressesX11Only ==
    (Compiled /\ p.Level \in 1..3) =>
        \E seg \in {parseSockets(ai, fs, env, p, arg.socketOrder)} :
            /\ Occurs(seg, ret.cmdArgs)
            /\ BothUnderWayland =>
                  /\ Occurs(sockets(ai, fs, env, "wayland"), seg)
                  /\ (AllDirectives(sockets(ai, fs, env, "x11"))
                        \ AllDirectives(sockets(ai, fs, env, "wayland")))
                       \cap AllDirectives(seg) = {}
            /\ X11Alone => Occurs(sockets(ai, fs, env, "x11"), ret.cmdArgs)

\* WrapArgs compiled a model that grants wayland and x11 on a host with
\* WAYLAND_DISPLAY set, and the list holds the Wayland bundle
C17_Witness ==
    /\ Compiled
    /\ p.Level \in 1..3
    /\ BothUnderWayland
    /\ Occurs(sockets(ai, fs, env, "wayland"), ret.cmdArgs)

\* how many directives of an argument list are the directive d
Occurrences(list, d) ==
    Cardinality({i \in DirectiveStarts(list) : DirectiveAt(list, i) = d})

\* the same, the positions where the directives start being given
OccurrencesAmong(list, starts, d) ==
    Cardinality({i \in starts : DirectiveAt(list, i) = d})

\* the sockets that have a negative directive, each with it
Negatives == {
    [socket |-> "network", directive |-> <<"--unshare-net">>],
    [socket |-> "pid", directive |-> <<"--unshare-pid">>],
    [socket |-> "uts", directive |-> <<"--unshare-uts">>],
    [socket |-> "user", directive |-> <<"--unshare-user-try">>],
    [socket |-> "cgroup", directive |-> <<"--unshare-cgroup-try">>],
    [socket |-> "session", directive |-> <<"--new-session">>]}

\* C18: for every compile at level 1..3 and every socket among network, pid,
\* uts, user, cgroup and session, the directive list holds the negative
\* directive of the socket exactly once when the socket is not granted, and
\* does not hold it when the socket is granted.
C18_NegativeDirectives ==
    (Compiled /\ p.Level \in 1..3) =>
        \E starts \in {DirectiveStarts(ret.cmdArgs)} :
            \A n \in Negatives :
                OccurrencesAmong(ret.cmdArgs, starts, n.directive) =
                    IF n.socket \in GrantedSockets THEN 0 ELSE 1

\* WrapArgs compiled a model that grants network and not pid, for a caller
\* whose own argument is --unshare-net: the list holds --unshare-pid and
\* its directives hold no --unshare-net
C18_Witness ==
    /\ Compiled
    /\ p.Level \in 1..3
    /\ "network" \in GrantedSockets
    /\ "pid" \notin GrantedSockets
    /\ arg.args = <<"--unshare-net">>
    /\ Occurrences(ret.cmdArgs, <<"--unshare-pid">>) = 1
    /\ Occurrences(ret.cmdArgs, <<"--unshare-net">>) = 0

\* the names of the devices the permission model grants, stored by name or
\* by node
GrantedDevices == {Str(CleanDevice(p.Devices[i])) : i \in 1..Len(p.Devices)}

\* how many times the arguments sub occur in the list, from the start of a
\* directive on
BundleOccurrences(sub, list) ==
    Cardinality({i \in DirectiveStarts(list) :
                    /\ i + Len(sub) - 1 <= Len(list)
                    /\ SubSeq(list, i, i + Len(sub) - 1) = sub})

\* C19: the device grants of a compiled list hold exactly one device bind
\* per granted device, on /dev/<name> whether the device is stored as name
\* or as /dev/name; for a granted dri or input they hold the files of that
\* class exactly once as well, and they hold nothing else.
C19_DeviceGrants ==
    (Compiled /\ p.Level \in 1..3) =>
        \E seg \in {parseDevices(ai, fs, p, arg.deviceOrder)} :
            /\ Occurs(seg, ret.cmdArgs)
            /\ \A name \in GrantedDevices :
                  Occurrences(seg, <<"--dev-bind-try", "/dev/" \o name,
                                    "/dev/" \o name>>) = 1
            /\ \A k \in 1..Len(DeviceKeys) :
                  BundleOccurrences(deviceFiles(ai, fs, DeviceKeys[k]), seg) =
                      IF DeviceKeys[k] \in GrantedDevices THEN 1 ELSE 0
            /\ Len(seg) =
                  3 * Cardinality(GrantedDevices)
                  + (IF "dri" \in GrantedDevices
                     THEN Len(deviceFiles(ai, fs, "dri")) ELSE 0)
                  + (IF "input" \in GrantedDevices
                     THEN Len(deviceFiles(ai, fs, "input")) ELSE 0)

\* C26: policy compilation is deterministic: compiling again with the same
\* mounted handle, permission model, arguments and host, in whatever order
\* the ranges over the sockets map and the devices map visit their keys,
\* gives the directive list the first compilation gave.
C26_CompilationDeterministic ==
    Compiled
    => \A so \in SocketOrders, do \in DeviceOrders :
          WrapArgs(ai, fs, env, p, arg.args, so, do) = ret

----------------------------------------------------------------------------
(* Claims on mounting *)

\* C20: in every reachable state the handle reports itself mounted (its
\* mount directory is not empty) iff the image is mounted on its mount
\* directory; so after Mount() returns an error the handle does not report
\* itself mounted.
C20_MountedIffImageMounted ==
    IsMounted(ai) <=> (ai.mountDir \in fs.mounts)

\* C21: Mount(target) with a target that is a directory mounts the image on
\* the target (the mount helper is skipped only when the target is a mount
\* point already), and afterwards the handle is mounted with its mount
\* directory equal to the target; with a target that is no directory it
\* returns NoMountPoint and changes nothing.
C21_MountAtTarget ==
    [][(op' = "Mount" /\ Len(arg') = 1)
       => IF arg'[1] \in fs.dirs
          THEN ret' = "nil" => /\ ai'.mountDir = arg'[1]
                               /\ arg'[1] \in fs'.mounts
          ELSE /\ ret' = NoMountPoint
               /\ ai' = ai
               /\ fs' = fs]_vars

\* C22: after Destroy has succeeded on a mounted handle the mount directory
\* of the handle is cleared, policy compilation on it returns an error, and
\* the next Destroy or Mount on it returns an error.
C22_DestroyedStaysInvalid ==
    [][(op = "Destroy" /\ ret = "nil")
       => /\ ai.mountDir = ""
          /\ WrapArgs(ai, fs, env, p, <<>>, <<>>, <<>>).err # "nil"
          /\ op' \in {"Mount", "Destroy"} => ret' # "nil"]_vars

----------------------------------------------------------------------------
(* Claims on the command line *)

\* C13: the enforcer is run only if, when the bundle was configured for
\* launch, the trust predicate held or --trust-once was given; for a bundle
\* that is not trusted and without --trust-once the run ends with an error
\* and the enforcer has not been run.
C13_EnforcerOnlyWhenTrusted ==
    /\ Len(proc.enforcer) > 0 => (proc.gate = "trusted" \/ proc.trustOnce)
    /\ (proc.gate = "untrusted" /\ ~proc.trustOnce) =>
          (proc.pc = "exited" /\ proc.exit = 1 /\ ret # "nil"
           /\ Len(proc.enforcer) = 0)

\* the enforcer has been run for a bundle found trusted, without --trust-once
C13_Witness ==
    /\ Len(proc.enforcer) = 1
    /\ proc.gate = "trusted"
    /\ ~proc.trustOnce

\* C23: when the signal listener takes an interrupt or termination signal
\* while the bundle of the process is mounted, it issues an unmount of the
\* mount directory of the bundle.
C23_SignalUnmounts ==
    [][(/\ proc.listener = "waiting"
        /\ proc'.listener = "done"
        /\ ai.mountDir \in fs.mounts)
       => ai.mountDir \in proc'.umounts]_vars

\* C28: a run of the command-line program that has mounted the bundle (it
\* has reached the trust gate, which main runs after a successful mount
\* only) has run Destroy by the time the process has exited, the runs that
\* end in a fatal error at the gate included.
C28_MountedRunDestroys ==
    (proc.pc = "exited" /\ proc.gate # "none") => proc.destroyed

----------------------------------------------------------------------------
(* Claims on detection and the image offset *)

\* C24: for every ELF bundle of type 1 or type 2 that elf.NewFile accepts and
\* whose header declares N section headers of size S at offset O, GetOffset
\* returns O + N*S and no error.
C24_ElfOffset ==
    (/\ op = "GetOffset"
     /\ fs.bundle # NoFile
     /\ fs.bundle.magic = "elf"
     /\ fs.bundle.marker \in {1, 2}
     /\ fs.bundle.parses)
    => /\ ret.err = "nil"
       /\ ret.n = fs.bundle.shoff + fs.bundle.shnum * fs.bundle.shentsize

\* C25: when NewAppImage succeeds, the detector computes an offset for the
\* file without error and the Offset of the handle is that offset; and the
\* offset on the command line of the mount helper Mount runs is that offset.
C25_HandleOffsetIsDetected ==
    \E detected \in {GetOffset(fs.bundle)} :
        /\ (op = "NewAppImage" /\ ret = "nil")
           => (detected.err = "nil" /\ ai.Offset = detected.n)
        /\ (op = "Mount" /\ arg # <<>>)
           => arg[3] = <<"o", "f", "f", "s", "e", "t", "=">> \o Itoa(detected.n)

----------------------------------------------------------------------------
(* Claims on processes sharing a mount *)

\* C27: when two processes have the bundle of one path mounted on the shared
\* mount directory, Destroy by one of them leaves that directory mounted and
\* the shared temporary directory in place while the other still holds the
\* bundle mounted.
C27_DestroyKeepsSharedMount ==
    [][\A i \in Launchers, j \in Launchers :
          (/\ i # j
           /\ op' = "Destroy"
           /\ arg' = i
           /\ IsMounted(ai[j])
           /\ ai[j].mountDir \in fs.mounts
           /\ ai[j].tempDir \in fs.dirs)
          => /\ ai[j].mountDir \in fs'.mounts
             /\ ai[j].tempDir \in fs'.dirs]_vars

====
